---- MODULE Spec2Model ----
(***************************************************************************)
(* A model of the vector database of gauravreddy08/vector-db: the three    *)
(* vector indexes (linear, IVF, NSW), the metadata filter evaluator, the   *)
(* k-means helper, the index registry and the library / document / chunk   *)
(* services with their in-memory repositories.                             *)
(*                                                                         *)
(* Python dicts are sequences of <<key, value>> pairs in insertion order.  *)
(* A similarity is the exact rational sgn(dot)*dot^2 / (|a|^2 |b|^2), kept *)
(* as <<num, den>>: it orders pairs of vectors as the cosine does.         *)
(* Python sets are iterated in an order the program does not control:      *)
(* every operator that iterates a set returns the set of its outcomes.     *)
(***************************************************************************)
EXTENDS Integers, Sequences, FiniteSets, TLC

VARIABLES index, last, libraries, documents, chunks, active_indexes, svc,
          pc, rwlock, wop, seen

vars == <<index, last, libraries, documents, chunks, active_indexes, svc,
          pc, rwlock, wop, seen>>

----------------------------------------------------------------------------
(* Bounds of the model *)

MaxIds == 3
MaxIdsIVF == 2
MaxK == 2
MaxUuid == 4
MaxLibs == 2
MaxRegIds == 1
NThreads == 2

Ids == 1..MaxIds
NoId == 0

\* embeddings: List[float] of one dimension (2) per index; the stored ones,
\* and the queries, which add a direction orthogonal to a stored one
Vecs == {<<1, 0>>, <<1, 1>>}
Queries == Vecs \cup {<<0, 1>>}

----------------------------------------------------------------------------
(* Python built-ins *)

Min(a, b) == IF a <= b THEN a ELSE b
Max(a, b) == IF a >= b THEN a ELSE b
\* a list or a dict built by a comprehension, held as an explicit value
AsList(f) == f \o <<>>
AsDict(f) == f @@ <<>>

\* Optional[int]
None == [some |-> FALSE, v |-> 0]
Some(x) == [some |-> TRUE, v |-> x]

\* seq[:k]
Take(s, k) ==
    IF k >= 0 THEN SubSeq(s, 1, Min(k, Len(s)))
    ELSE SubSeq(s, 1, Max(0, Len(s) + k))

RECURSIVE SeqToSet(_)
SeqToSet(s) == IF s = <<>> THEN {} ELSE {Head(s)} \cup SeqToSet(Tail(s))

\* dict: insertion-ordered <<key, value>> pairs
DictKeys(d) == {d[i][1] : i \in 1..Len(d)}
DictHas(d, k) == \E i \in 1..Len(d) : d[i][1] = k
DictGet(d, k) == d[CHOOSE i \in 1..Len(d) : d[i][1] = k][2]
DictKeyList(d) == AsList([i \in 1..Len(d) |-> d[i][1]])
\* d[k] = v: an existing key keeps its position, a new key goes last
DictSet(d, k, v) ==
    IF DictHas(d, k)
    THEN AsList([i \in 1..Len(d) |-> IF d[i][1] = k THEN <<k, v>> ELSE d[i]])
    ELSE Append(d, <<k, v>>)
\* del d[k]
DictDel(d, k) == SelectSeq(d, LAMBDA p : p[1] # k)
\* d.update(e)
RECURSIVE DictUpdate(_, _)
DictUpdate(d, e) ==
    IF e = <<>> THEN d
    ELSE DictUpdate(DictSet(d, Head(e)[1], Head(e)[2]), Tail(e))

\* round(num / den) for num >= 0, den > 0: Python rounds halves to even
RoundHalfEven(num, den) ==
    LET q == num \div den
        r == num % den
    IN IF 2 * r < den THEN q
       ELSE IF 2 * r > den THEN q + 1
       ELSE IF q % 2 = 0 THEN q ELSE q + 1

----------------------------------------------------------------------------
(* Similarity kernel (spec 4.1): cos(a, b), 0 when a norm is 0 *)

Dot(a, b) == a[1] * b[1] + a[2] * b[2]
NormSq(a) == Dot(a, a)

cosine_similarity(a, b) ==
    LET d == Dot(a, b)
        n == NormSq(a) * NormSq(b)
    IN IF n = 0 THEN <<0, 1>>
       ELSE <<(IF d < 0 THEN -(d * d) ELSE d * d), n>>

\* float comparison of two similarities
SimLess(s, t) == s[1] * t[2] < t[1] * s[2]
SimEq(s, t) == s[1] * t[2] = t[1] * s[2]

\* tuple comparison (sim, chunk_id) < (sim', chunk_id')
TupleLess(a, b) == SimLess(a[1], b[1]) \/ (SimEq(a[1], b[1]) /\ a[2] < b[2])

\* heapq on (sim, id) tuples: the heap as an ascending sequence, heap[0] first
heappush(h, x) ==
    LET n == Cardinality({i \in 1..Len(h) : ~TupleLess(x, h[i])})
    IN SubSeq(h, 1, n) \o <<x>> \o SubSeq(h, n + 1, Len(h))
\* a pop that drops the largest entry instead of the smallest
heappop_largest(h) == SubSeq(h, 1, Len(h) - 1)
heappop(h) == Tail(h)

\* a sort that leaves the list as it is
SortKeepOrder(s, pos) == s

\* list.sort(key=lambda x: x[pos], reverse=True): stable, entries of equal
\* similarity keep their order
RECURSIVE SortDescBy(_, _)
SortDescBy(s, pos) ==
    IF s = <<>> THEN <<>>
    ELSE LET rest == SortDescBy(SubSeq(s, 1, Len(s) - 1), pos)
             x == s[Len(s)]
             n == Cardinality({i \in 1..Len(rest) : ~SimLess(rest[i][pos], x[pos])})
         IN SubSeq(rest, 1, n) \o <<x>> \o SubSeq(rest, n + 1, Len(rest))

\* f[k] = v and del f[k] on a dict whose order is never read
FnSet(f, k, v) == AsDict([x \in (DOMAIN f) \cup {k} |-> IF x = k THEN v ELSE f[x]])
FnDel(f, k) == AsDict([x \in (DOMAIN f) \ {k} |-> f[x]])

----------------------------------------------------------------------------
(* Metadata and the filter evaluator *)

\* JSON values; a string is its sequence of characters
VStr(s) == [ty |-> "str", s |-> s, i |-> 0, l |-> <<>>]
VInt(i) == [ty |-> "int", s |-> <<>>, i |-> i, l |-> <<>>]
VList(l) == [ty |-> "list", s |-> <<>>, i |-> 0, l |-> l]
VNone == [ty |-> "none", s |-> <<>>, i |-> 0, l |-> <<>>]

\* a filter value: a scalar, or a dict of operator -> expected value
Scalar(v) == [dict |-> FALSE, v |-> v, ops |-> <<>>]
OpDict(ops) == [dict |-> TRUE, v |-> VNone, ops |-> ops]

\* metadata.get(field_name)
MetaGet(m, f) == IF DictHas(m, f) THEN DictGet(m, f) ELSE VNone

\* code points of the characters the model's strings are written with
CharCode(c) ==
    CASE c = "-" -> 45 [] c = "0" -> 48 [] c = "1" -> 49 [] c = "2" -> 50
      [] c = "3" -> 51 [] c = "X" -> 88 [] c = "a" -> 97 [] c = "x" -> 120
      [] c = "y" -> 121 [] c = "z" -> 122 [] OTHER -> 0
\* c.lower()
CharLower(c) == IF c = "X" THEN "x" ELSE c
StrLower(s) == AsList([i \in 1..Len(s) |-> CharLower(s[i])])

\* s < t on Python strings: lexicographic by code point
RECURSIVE StrLess(_, _)
StrLess(s, t) ==
    IF t = <<>> THEN FALSE
    ELSE IF s = <<>> THEN TRUE
    ELSE IF CharCode(Head(s)) # CharCode(Head(t)) THEN CharCode(Head(s)) < CharCode(Head(t))
    ELSE StrLess(Tail(s), Tail(t))

\* a < b raises TypeError unless both are numbers or both are strings
Ordered(a, b) == a.ty = b.ty /\ a.ty \in {"int", "str"}
ValLess(a, b) == IF a.ty = "int" THEN a.i < b.i ELSE StrLess(a.s, b.s)

\* str(i) for an int
RECURSIVE Digits(_)
Digits(n) ==
    LET d == <<"0", "1", "2", "3", "4", "5", "6", "7", "8", "9">>
    IN IF n < 10 THEN <<d[n + 1]>> ELSE Digits(n \div 10) \o <<d[(n % 10) + 1]>>
RECURSIVE ListStr(_)
\* str(v)
StrOf(v) ==
    CASE v.ty = "str" -> v.s
      [] v.ty = "int" -> IF v.i < 0 THEN <<"-">> \o Digits(-v.i) ELSE Digits(v.i)
      [] v.ty = "none" -> <<"N", "o", "n", "e">>
      [] OTHER -> ListStr(v.l)
ListStr(l) == <<"[">> \o (IF l = <<>> THEN <<>> ELSE <<"'">> \o l[1].s \o <<"'">>) \o <<"]">>

\* a in b on strings: a is a substring of b
Substring(a, b) ==
    \E i \in 0..(Len(b) - Len(a)) : SubSeq(b, i + 1, i + Len(a)) = a

\* the exception the body of _apply_operator raises, "none" when it returns:
\* an ordered comparison of values that are not both numbers or both strings
\* raises TypeError; no other branch raises
operator_exception(field_value, operator, expected_value) ==
    IF operator \in {"gt", "gte", "lt", "lte"} /\ ~Ordered(field_value, expected_value)
    THEN "TypeError" ELSE "none"
\* except (TypeError, ValueError): whether an exception leaves _apply_operator
apply_operator_raises(field_value, operator, expected_value) ==
    operator_exception(field_value, operator, expected_value)
        \notin {"none", "TypeError", "ValueError"}

\* an evaluator for which an operator it does not know matches nothing
apply_operator_unknown_false(field_value, operator, expected_value) ==
    CASE operator = "eq" -> field_value = expected_value
      [] operator = "ne" -> field_value # expected_value
      [] operator = "gt" ->
            Ordered(field_value, expected_value) /\ ValLess(expected_value, field_value)
      [] operator = "gte" ->
            Ordered(field_value, expected_value) /\ ~ValLess(field_value, expected_value)
      [] operator = "lt" ->
            Ordered(field_value, expected_value) /\ ValLess(field_value, expected_value)
      [] operator = "lte" ->
            Ordered(field_value, expected_value) /\ ~ValLess(expected_value, field_value)
      [] operator = "contains" ->
            Substring(StrLower(StrOf(expected_value)), StrLower(StrOf(field_value)))
      [] operator = "in" ->
            expected_value.ty = "list" /\ field_value \in SeqToSet(expected_value.l)
      [] operator = "nin" ->
            expected_value.ty = "list" /\ field_value \notin SeqToSet(expected_value.l)
      [] OTHER -> FALSE

apply_operator(field_value, operator, expected_value) ==
    CASE operator = "eq" -> field_value = expected_value
      [] operator = "ne" -> field_value # expected_value
      [] operator = "gt" ->
            Ordered(field_value, expected_value) /\ ValLess(expected_value, field_value)
      [] operator = "gte" ->
            Ordered(field_value, expected_value) /\ ~ValLess(field_value, expected_value)
      [] operator = "lt" ->
            Ordered(field_value, expected_value) /\ ValLess(field_value, expected_value)
      [] operator = "lte" ->
            Ordered(field_value, expected_value) /\ ~ValLess(expected_value, field_value)
      [] operator = "contains" ->
            Substring(StrLower(StrOf(expected_value)), StrLower(StrOf(field_value)))
      [] operator = "in" ->
            expected_value.ty = "list" /\ field_value \in SeqToSet(expected_value.l)
      [] operator = "nin" ->
            expected_value.ty = "list" /\ field_value \notin SeqToSet(expected_value.l)
      [] OTHER -> TRUE

normalize_filters(filters) ==
    AsList([i \in 1..Len(filters) |->
        IF filters[i][2].dict THEN <<filters[i][1], filters[i][2].ops>>
        ELSE <<filters[i][1], <<(<<"eq", filters[i][2].v>>)>> >>])

matches_field_filter(metadata, field_name, filter_spec) ==
    LET field_value == MetaGet(metadata, field_name)
    IN IF field_value = VNone THEN FALSE
       ELSE \A j \in 1..Len(filter_spec) :
                apply_operator(field_value, filter_spec[j][1], filter_spec[j][2])

\* self._metadata.get(chunk_id, {}) of the index that owns the evaluator
matches_filters(metadata_map, chunk_id, filters) ==
    IF filters = <<>> THEN TRUE
    ELSE LET chunk_metadata ==
                 IF chunk_id \in DOMAIN metadata_map THEN metadata_map[chunk_id]
                 ELSE <<>>
             normalized_filters == normalize_filters(filters)
         IN \A i \in 1..Len(normalized_filters) :
                matches_field_filter(chunk_metadata, normalized_filters[i][1],
                                     normalized_filters[i][2])

\* the metadata records and the filters the index operations are driven with
Metas == { <<(<<"tag", VStr(<<"x">>)>>)>>, <<(<<"tag", VStr(<<"y">>)>>)>> }
NoFilter == <<>>
Filters == { NoFilter, <<(<<"tag", Scalar(VStr(<<"x">>))>>)>> }

----------------------------------------------------------------------------
(* Index objects: one record shape for the three kinds *)

DefaultMultiplier == 3
DefaultClusterRatio == 5     \* 0.05, in hundredths
DefaultProbeRatio == 20      \* 0.2, in hundredths
DefaultM == 8
DefaultEfConstruction == 32
DefaultEfSearch == 64

BlankIndex ==
    [kind |-> "linear", chunks |-> <<>>, metadata |-> <<>>,
     unprocessed_chunks |-> <<>>, centroids |-> <<>>, cluster_members |-> <<>>,
     computed_n_probes |-> None, graph |-> <<>>, entry_point |-> NoId,
     multiplier |-> DefaultMultiplier,
     cluster_ratio |-> 0, probe_ratio |-> 0,
     explicit_n_clusters |-> None, explicit_default_n_probes |-> None,
     M |-> 0, efConstruction |-> 0, efSearch |-> 0]

LinearIndex_init == [BlankIndex EXCEPT !.kind = "linear", !.multiplier = DefaultMultiplier]

\* a constructor that keeps the ratios as given
IVFIndex_init_ratios_as_given(n_clusters, n_probes, cluster_ratio, probe_ratio, multiplier) ==
    [BlankIndex EXCEPT !.kind = "ivf",
                       !.multiplier = multiplier,
                       !.cluster_ratio = cluster_ratio,
                       !.probe_ratio = probe_ratio,
                       !.explicit_n_clusters = n_clusters,
                       !.explicit_default_n_probes = n_probes]

\* IVFIndex.__init__: the ratios are clamped at 0, the explicit counts and the
\* multiplier are kept as given
IVFIndex_init(n_clusters, n_probes, cluster_ratio, probe_ratio, multiplier) ==
    [BlankIndex EXCEPT !.kind = "ivf",
                       !.multiplier = multiplier,
                       !.cluster_ratio = Max(0, cluster_ratio),
                       !.probe_ratio = Max(0, probe_ratio),
                       !.explicit_n_clusters = n_clusters,
                       !.explicit_default_n_probes = n_probes]

NSWIndex_init(m, efConstruction, efSearch, multiplier) ==
    [BlankIndex EXCEPT !.kind = "nsw",
                       !.M = Max(1, m),
                       !.efConstruction = Max(1, efConstruction),
                       !.efSearch = Max(1, efSearch),
                       !.multiplier = multiplier]

\* the heap of a bounded scan: push every (similarity, id), pop the least
\* when the heap is longer than k; then pop all, keep those the filter
\* matches, sort by similarity descending, cut at k
RECURSIVE ScanHeap(_, _, _, _)
ScanHeap(items, query_embedding, k, heap) ==
    IF items = <<>> THEN heap
    ELSE LET similarity == cosine_similarity(Head(items)[2], query_embedding)
             h1 == heappush(heap, <<similarity, Head(items)[1]>>)
             h2 == IF Len(h1) > k THEN heappop(h1) ELSE h1
         IN ScanHeap(Tail(items), query_embedding, k, h2)

brute_force_search(metadata_map, search_space, query_embedding, k, filters) ==
    LET heap == ScanHeap(search_space, query_embedding, k, <<>>)
        kept == SelectSeq(heap, LAMBDA t : matches_filters(metadata_map, t[2], filters))
        results == AsList([i \in 1..Len(kept) |-> <<kept[i][2], kept[i][1]>>])
    IN Take(SortDescBy(results, 2), k)

----------------------------------------------------------------------------
(* LinearIndex *)

LinearIndex_add(ix, chunk_id, embedding, metadata) ==
    [ix EXCEPT !.chunks = DictSet(@, chunk_id, embedding),
               !.metadata = FnSet(@, chunk_id, metadata)]

LinearIndex_search(ix, query_embedding, k, filters) ==
    LET fetch_count == IF filters # <<>> THEN k * ix.multiplier ELSE k
        heap == ScanHeap(ix.chunks, query_embedding, fetch_count, <<>>)
        kept == SelectSeq(heap, LAMBDA t : matches_filters(ix.metadata, t[2], filters))
        results == AsList([i \in 1..Len(kept) |-> <<kept[i][2], kept[i][1]>>])
    IN Take(SortDescBy(results, 2), k)

\* <<new index, returned flag>>
\* a delete that forgets the metadata entry
LinearIndex_delete_keeps_metadata(ix, chunk_id) ==
    IF ~DictHas(ix.chunks, chunk_id) THEN <<ix, FALSE>>
    ELSE <<[ix EXCEPT !.chunks = DictDel(@, chunk_id)], TRUE>>

LinearIndex_delete(ix, chunk_id) ==
    IF ~DictHas(ix.chunks, chunk_id) THEN <<ix, FALSE>>
    ELSE <<[ix EXCEPT !.chunks = DictDel(@, chunk_id),
                      !.metadata = FnDel(@, chunk_id)], TRUE>>

\* an update that inserts the id when it is not stored
LinearIndex_update_inserts(ix, chunk_id, embedding, metadata) ==
    <<[ix EXCEPT !.chunks = DictSet(@, chunk_id, embedding),
                 !.metadata = FnSet(@, chunk_id, metadata)], TRUE>>

LinearIndex_update(ix, chunk_id, embedding, metadata) ==
    IF ~DictHas(ix.chunks, chunk_id) THEN <<ix, FALSE>>
    ELSE <<[ix EXCEPT !.chunks = DictSet(@, chunk_id, embedding),
                      !.metadata = FnSet(@, chunk_id, metadata)], TRUE>>

----------------------------------------------------------------------------
(* KMeans: a centroid is the mean s / n of integer vectors, kept in lowest  *)
(* terms as [s, n]                                                          *)

KMeansMaxIters == 50
\* 1 / tol^2 for tol = 1e-4
KMeansTolInvSq == 100000000

RECURSIVE GCD(_, _)
GCD(a, b) == IF b = 0 THEN a ELSE GCD(b, a % b)
Abs(x) == IF x < 0 THEN -x ELSE x

Reduce(s, n) ==
    LET g == GCD(GCD(Abs(s[1]), Abs(s[2])), n)
    IN [s |-> <<s[1] \div g, s[2] \div g>>, n |-> n \div g]

RECURSIVE VecSum(_)
VecSum(vs) ==
    IF vs = <<>> THEN <<0, 0>>
    ELSE LET r == VecSum(Tail(vs)) IN <<Head(vs)[1] + r[1], Head(vs)[2] + r[2]>>

\* KMeans._mean of a non-empty list
kmeans_mean(vectors) == Reduce(VecSum(vectors), Len(vectors))

\* 1 - KMeans._cosine_distance(x, c): the cosine, 0 when a norm is 0
kmeans_cosine(x, c) == cosine_similarity(x, c.s)

\* the while loop of KMeans._initialize_centroids
RECURSIVE InitIndices(_, _, _, _, _)
InitIndices(indices, idx, n_samples, k, step) ==
    IF Len(indices) >= k THEN indices
    ELSE LET i1 == IF idx >= n_samples THEN (idx % n_samples) + 1 ELSE idx
             ind1 == IF i1 \notin SeqToSet(indices) THEN Append(indices, i1) ELSE indices
         IN InitIndices(ind1, i1 + step, n_samples, k, step)

initialize_centroids(X, n_clusters) ==
    LET n_samples == Len(X)
        k == Min(n_clusters, n_samples)
    IN IF k = 0 THEN <<>>
       ELSE LET step == Max(1, n_samples \div k)
                indices == InitIndices(<<>>, 0, n_samples, k, step)
            IN AsList([j \in 1..Len(indices) |->
                          [s |-> X[(indices[j] % n_samples) + 1], n |-> 1]])

\* the assignment step: the first centroid of least cosine distance (0-based)
AssignLabel(x, centroids) ==
    CHOOSE c \in 0..(Len(centroids) - 1) :
        /\ \A j \in 0..(Len(centroids) - 1) :
              ~SimLess(kmeans_cosine(x, centroids[c + 1]), kmeans_cosine(x, centroids[j + 1]))
        /\ \A j \in 0..(c - 1) :
              SimLess(kmeans_cosine(x, centroids[j + 1]), kmeans_cosine(x, centroids[c + 1]))

\* the update step: the mean of each cluster, the previous centroid when empty
UpdateCentroids(X, labels, centroids) ==
    AsList([c \in 1..Len(centroids) |->
        LET members == SelectSeq([i \in 1..Len(X) |-> <<X[i], labels[i]>>],
                                 LAMBDA p : p[2] = c - 1)
        IN IF members # <<>>
           THEN kmeans_mean(AsList([i \in 1..Len(members) |-> members[i][1]]))
           ELSE centroids[c]])

\* norm(old - new) <= tol, on the squares: |old.s*new.n - new.s*old.n|^2 *
\* 1/tol^2 <= (old.n*new.n)^2; the left side is an integer, so below
\* denominators of 1/tol it is the test for no shift at all
ShiftWithinTol(old, new) ==
    LET d == <<old.s[1] * new.n - new.s[1] * old.n, old.s[2] * new.n - new.s[2] * old.n>>
        den == (old.n * new.n) * (old.n * new.n)
    IN IF den < KMeansTolInvSq THEN NormSq(d) = 0
       ELSE NormSq(d) * KMeansTolInvSq <= den

RECURSIVE FitLoop(_, _, _, _)
FitLoop(X, centroids, labels, iters) ==
    IF iters = 0 THEN [centroids |-> centroids, labels |-> labels]
    ELSE LET labels1 == AsList([i \in 1..Len(X) |-> AssignLabel(X[i], centroids)])
             new_centroids == UpdateCentroids(X, labels1, centroids)
             converged == \A c \in 1..Len(centroids) :
                              ShiftWithinTol(centroids[c], new_centroids[c])
         IN IF converged THEN [centroids |-> new_centroids, labels |-> labels1]
            ELSE FitLoop(X, new_centroids, labels1, iters - 1)

\* KMeans(n_clusters).fit(X)
kmeans_fit(X, n_clusters) ==
    IF X = <<>> THEN [centroids |-> <<>>, labels |-> <<>>]
    ELSE FitLoop(X, initialize_centroids(X, n_clusters), AsList([i \in 1..Len(X) |-> 0]),
                 KMeansMaxIters)

----------------------------------------------------------------------------
(* IVFIndex *)

IVFIndex_add(ix, chunk_id, embedding, metadata) ==
    [ix EXCEPT !.unprocessed_chunks = DictSet(@, chunk_id, embedding),
               !.metadata = FnSet(@, chunk_id, metadata)]

\* a merge that leaves the buffer as it was
IVFIndex_merge_keeps_pending(ix) ==
    IF ix.unprocessed_chunks # <<>>
    THEN [ix EXCEPT !.chunks = DictUpdate(@, ix.unprocessed_chunks)]
    ELSE ix

\* index(), first part: merge the buffered chunks
IVFIndex_merge(ix) ==
    IF ix.unprocessed_chunks # <<>>
    THEN [ix EXCEPT !.chunks = DictUpdate(@, ix.unprocessed_chunks),
                    !.unprocessed_chunks = <<>>]
    ELSE ix

\* a clustering that installs the probe count without clamping it
IVFIndex_cluster_probes_unclamped(ix) ==
    IF ix.chunks = <<>> THEN [ix EXCEPT !.centroids = <<>>, !.cluster_members = <<>>]
    ELSE
    LET chunk_ids == DictKeyList(ix.chunks)
        embeddings == AsList([i \in 1..Len(ix.chunks) |-> ix.chunks[i][2]])
        n_points == Len(embeddings)
        k0 == IF ix.explicit_n_clusters.some THEN ix.explicit_n_clusters.v
              ELSE Max(1, RoundHalfEven(n_points * ix.cluster_ratio, 100))
        fit == kmeans_fit(embeddings, Max(1, Min(k0, n_points)))
        k == Len(fit.centroids)
        probes == IF ix.explicit_default_n_probes.some THEN ix.explicit_default_n_probes.v
                  ELSE Max(1, RoundHalfEven(k * ix.probe_ratio, 100))
    IN [ix EXCEPT !.centroids = fit.centroids,
                  !.cluster_members =
                      AsList([c \in 1..k |-> {chunk_ids[i] : i \in {j \in 1..n_points :
                                                  fit.labels[j] = c - 1}}]),
                  !.computed_n_probes = Some(probes)]

\* index(), second part: cluster what is stored and install the clusters
IVFIndex_cluster(ix) ==
    IF ix.chunks = <<>> THEN [ix EXCEPT !.centroids = <<>>, !.cluster_members = <<>>]
    ELSE
    LET chunk_ids == DictKeyList(ix.chunks)
        embeddings == AsList([i \in 1..Len(ix.chunks) |-> ix.chunks[i][2]])
        n_points == Len(embeddings)
        k0 == IF ix.explicit_n_clusters.some THEN ix.explicit_n_clusters.v
              ELSE Max(1, RoundHalfEven(n_points * ix.cluster_ratio, 100))
        effective_k == Max(1, Min(k0, n_points))
        fit == kmeans_fit(embeddings, effective_k)
        k == Len(fit.centroids)
        cluster_members ==
            AsList([c \in 1..k |-> {chunk_ids[i] : i \in {j \in 1..n_points :
                                 fit.labels[j] = c - 1 /\ 0 <= fit.labels[j] /\ fit.labels[j] < k}}])
        probes == IF ix.explicit_default_n_probes.some THEN ix.explicit_default_n_probes.v
                  ELSE Max(1, RoundHalfEven(k * ix.probe_ratio, 100))
    IN IF fit.centroids = <<>>
       THEN [ix EXCEPT !.centroids = <<>>, !.cluster_members = <<>>]
       ELSE [ix EXCEPT !.centroids = fit.centroids,
                       !.cluster_members = cluster_members,
                       !.computed_n_probes = Some(Max(1, Min(probes, k)))]

IVFIndex_index(ix) == IVFIndex_cluster(IVFIndex_merge(ix))

\* a set as a list in ascending order (the order does not reach any result)
RECURSIVE SetToSeq(_)
SetToSeq(S) ==
    IF S = {} THEN <<>>
    ELSE LET x == CHOOSE x \in S : \A y \in S : x <= y IN <<x>> \o SetToSeq(S \ {x})

\* the walk over the ranked clusters of IVFIndex.search; returns the search space
RECURSIVE ProbeWalk(_, _, _, _, _)
ProbeWalk(ix, ranked_indices, search_space, fetch_count, probes) ==
    IF ranked_indices = <<>> THEN search_space
    ELSE LET idx == Head(ranked_indices)
             members == IF 0 <= idx /\ idx < Len(ix.cluster_members)
                        THEN SetToSeq({cid \in ix.cluster_members[idx + 1] :
                                          DictHas(ix.chunks, cid)})
                        ELSE <<>>
             space1 == DictUpdate(search_space,
                                  AsList([i \in 1..Len(members) |->
                                      <<members[i], DictGet(ix.chunks, members[i])>>]))
         IN IF Len(space1) >= fetch_count /\ idx + 1 >= probes THEN space1
            ELSE ProbeWalk(ix, Tail(ranked_indices), space1, fetch_count, probes)

\* the number of clusters the walk of IVFIndex.search visits before it stops
RECURSIVE ProbeVisits(_, _, _, _, _)
ProbeVisits(ix, ranked_indices, search_space, fetch_count, probes) ==
    IF ranked_indices = <<>> THEN 0
    ELSE LET idx == Head(ranked_indices)
             members == IF 0 <= idx /\ idx < Len(ix.cluster_members)
                        THEN SetToSeq({cid \in ix.cluster_members[idx + 1] :
                                          DictHas(ix.chunks, cid)})
                        ELSE <<>>
             space1 == DictUpdate(search_space,
                                  AsList([i \in 1..Len(members) |->
                                      <<members[i], DictGet(ix.chunks, members[i])>>]))
         IN IF Len(space1) >= fetch_count /\ idx + 1 >= probes THEN 1
            ELSE 1 + ProbeVisits(ix, Tail(ranked_indices), space1, fetch_count, probes)

\* the number of probes IVFIndex.search starts from
IVFSearchProbes(ix) ==
    LET total_clusters == Len(ix.centroids)
    IN IF ix.computed_n_probes.some /\ ix.computed_n_probes.v > 0
       THEN Min(Max(1, ix.computed_n_probes.v), total_clusters)
       ELSE Min(Max(1, RoundHalfEven(total_clusters * ix.probe_ratio, 100)), total_clusters)

\* the clusters ranked by similarity to the query, best first (0-based)
IVFRankedIndices(ix, query_embedding) ==
    LET ranked == SortDescBy([i \in 1..Len(ix.centroids) |->
                                 <<cosine_similarity(ix.centroids[i].s, query_embedding), i - 1>>], 1)
    IN AsList([i \in 1..Len(ranked) |-> ranked[i][2]])

\* a search space that starts empty and not from the pending chunks
IVFSearchSpace_without_pending(ix, query_embedding, fetch_count) ==
    ProbeWalk(ix, IVFRankedIndices(ix, query_embedding), <<>>,
              fetch_count, IVFSearchProbes(ix))

\* the search space: the pending chunks, then the members of the probed clusters
IVFSearchSpace(ix, query_embedding, fetch_count) ==
    ProbeWalk(ix, IVFRankedIndices(ix, query_embedding), ix.unprocessed_chunks,
              fetch_count, IVFSearchProbes(ix))

IVFIndex_search(ix, query_embedding, k, filters) ==
    LET fetch_count == IF filters # <<>> THEN k * ix.multiplier ELSE k
    IN IF ix.centroids = <<>>
       THEN Take(brute_force_search(ix.metadata,
                                    DictUpdate(ix.chunks, ix.unprocessed_chunks),
                                    query_embedding, fetch_count, filters), k)
       ELSE Take(brute_force_search(ix.metadata,
                                    IVFSearchSpace(ix, query_embedding, fetch_count),
                                    query_embedding, fetch_count, filters), k)

\* members.discard(chunk_id) for every cluster
\* a discard that discards nothing
KeepMember(cluster_members, chunk_id) == cluster_members

DiscardMember(cluster_members, chunk_id) ==
    AsList([c \in 1..Len(cluster_members) |-> cluster_members[c] \ {chunk_id}])

\* a delete that reports success whatever it found
IVFIndex_delete_always_true(ix, chunk_id) ==
    <<[ix EXCEPT !.unprocessed_chunks = DictDel(@, chunk_id),
                 !.chunks = DictDel(@, chunk_id),
                 !.cluster_members = DiscardMember(@, chunk_id),
                 !.metadata = FnDel(@, chunk_id)],
      TRUE>>

IVFIndex_delete(ix, chunk_id) ==
    LET in_unprocessed == DictHas(ix.unprocessed_chunks, chunk_id)
        in_chunks == DictHas(ix.chunks, chunk_id)
    IN <<[ix EXCEPT !.unprocessed_chunks = DictDel(@, chunk_id),
                    !.chunks = DictDel(@, chunk_id),
                    !.cluster_members = IF in_chunks THEN DiscardMember(@, chunk_id) ELSE @,
                    !.metadata = FnDel(@, chunk_id)],
         in_unprocessed \/ in_chunks>>

\* an update that leaves the id in the cluster sets
IVFIndex_update_keeps_cluster(ix, chunk_id, embedding, metadata) ==
    IF ~DictHas(ix.chunks, chunk_id) /\ ~DictHas(ix.unprocessed_chunks, chunk_id)
    THEN <<ix, FALSE>>
    ELSE <<[ix EXCEPT !.chunks = DictDel(@, chunk_id),
                      !.unprocessed_chunks = DictSet(@, chunk_id, embedding),
                      !.metadata = FnSet(@, chunk_id, metadata)], TRUE>>

IVFIndex_update(ix, chunk_id, embedding, metadata) ==
    IF ~DictHas(ix.chunks, chunk_id) /\ ~DictHas(ix.unprocessed_chunks, chunk_id)
    THEN <<ix, FALSE>>
    ELSE <<[ix EXCEPT !.chunks = DictDel(@, chunk_id),
                      !.cluster_members = IF DictHas(ix.chunks, chunk_id)
                                          THEN DiscardMember(@, chunk_id) ELSE @,
                      !.unprocessed_chunks = DictSet(@, chunk_id, embedding),
                      !.metadata = FnSet(@, chunk_id, metadata)], TRUE>>

----------------------------------------------------------------------------
(* NSWIndex.  The neighbours of a node are a Python set: the operators that *)
(* iterate one return the set of what the iteration orders can produce.     *)

\* self._graph.get(node_id, set())
GraphGet(graph, node_id) == IF node_id \in DOMAIN graph THEN graph[node_id] ELSE {}

\* tuple comparison on the candidates heap, (-sim, id) < (-sim', id')
CandLess(a, b) == SimLess(b[1], a[1]) \/ (SimEq(a[1], b[1]) /\ a[2] < b[2])
\* heappush(candidates, (-sim, id)); entries are kept as <<sim, id>>
candpush(h, x) ==
    LET n == Cardinality({i \in 1..Len(h) : ~CandLess(x, h[i])})
    IN SubSeq(h, 1, n) \o <<x>> \o SubSeq(h, n + 1, Len(h))

\* push into candidates and into results, results bounded at ef
BeamPush(st, sim, nid, ef) ==
    LET r1 == heappush(st.results, <<sim, nid>>)
    IN [candidates |-> candpush(st.candidates, <<sim, nid>>),
        results |-> IF Len(r1) > ef THEN heappop(r1) ELSE r1]

\* the loop over the neighbours of the popped node, in every order
RECURSIVE BeamExpand(_, _, _, _, _)
BeamExpand(ix, query_embedding, ef, todo, st) ==
    IF todo = {} THEN {st}
    ELSE UNION { LET sim == cosine_similarity(DictGet(ix.chunks, neighbor), query_embedding)
                     st1 == IF Len(st.results) < ef \/ SimLess(st.results[1][1], sim)
                            THEN BeamPush(st, sim, neighbor, ef)
                            ELSE st
                 IN BeamExpand(ix, query_embedding, ef, todo \ {neighbor}, st1)
               : neighbor \in todo }

\* the while loop of _beam_search; returns the possible results heaps
RECURSIVE BeamLoop(_, _, _, _, _)
BeamLoop(ix, query_embedding, ef, visited, st) ==
    IF st.candidates = <<>> THEN {st.results}
    ELSE LET current_sim == Head(st.candidates)[1]
             node_id == Head(st.candidates)[2]
             popped == [st EXCEPT !.candidates = Tail(@)]
         IN IF node_id \in visited
            THEN BeamLoop(ix, query_embedding, ef, visited, popped)
            ELSE IF Len(st.results) >= ef /\ SimLess(current_sim, st.results[1][1])
            THEN {st.results}
            ELSE UNION { BeamLoop(ix, query_embedding, ef, visited \cup {node_id}, st1)
                       : st1 \in BeamExpand(ix, query_embedding, ef,
                                            GraphGet(ix.graph, node_id) \ (visited \cup {node_id}),
                                            popped) }

\* the seeding loop over start_ids
RECURSIVE BeamSeed(_, _, _, _, _)
BeamSeed(ix, query_embedding, ef, start_ids, st) ==
    IF start_ids = <<>> THEN st
    ELSE LET sid == Head(start_ids)
         IN IF ~DictHas(ix.chunks, sid)
            THEN BeamSeed(ix, query_embedding, ef, Tail(start_ids), st)
            ELSE BeamSeed(ix, query_embedding, ef, Tail(start_ids),
                          BeamPush(st, cosine_similarity(DictGet(ix.chunks, sid), query_embedding),
                                   sid, ef))

\* _beam_search: the possible ranked lists of <<id, similarity>>
beam_search(ix, query_embedding, ef, start_ids) ==
    IF start_ids = <<>> THEN {<<>>}
    ELSE { SortDescBy([i \in 1..Len(results) |-> <<results[i][2], results[i][1]>>], 2)
         : results \in BeamLoop(ix, query_embedding, ef, {},
                                BeamSeed(ix, query_embedding, ef, start_ids,
                                         [candidates |-> <<>>, results |-> <<>>])) }

\* the selection loop: the first M entries of ranked that are not the node
NSWSelect(ranked, node, M) ==
    Take(SelectSeq([i \in 1..Len(ranked) |-> ranked[i][1]], LAMBDA nid : nid # node), M)

\* a connection loop that links the node to its neighbours and not back
NSWConnectOneWay(graph, node, selected) ==
    AsDict([x \in DOMAIN graph |->
            IF x = node THEN graph[node] \cup SeqToSet(selected) ELSE graph[x]])

\* the bidirectional connection loop; node is a key of graph
NSWConnect(graph, node, selected) ==
    LET S == SeqToSet(selected)
    IN AsDict([x \in (DOMAIN graph) \cup S |->
            IF x = node THEN graph[node] \cup S
            ELSE IF x \in S THEN GraphGet(graph, x) \cup {node}
            ELSE graph[x]])

\* for v in list(graph.get(u, set())): graph[v].discard(u); graph[u] = set()
NSWDetach(graph, u) ==
    LET nbrs == GraphGet(graph, u)
    IN AsDict([x \in (DOMAIN graph) \cup {u} |->
            IF x = u THEN {} ELSE IF x \in nbrs THEN graph[x] \ {u} ELSE graph[x]])

\* the possible indexes after linking node to what a beam search from the
\* entry point selects
NSWReconnect(ix, node, embedding) ==
    { [ix EXCEPT !.graph = NSWConnect(@, node, NSWSelect(ranked, node, ix.M))]
    : ranked \in beam_search(ix, embedding, ix.efConstruction, <<ix.entry_point>>) }

NSWIndex_add(ix, chunk_id, embedding, metadata) ==
    LET ix1 == [ix EXCEPT !.chunks = DictSet(@, chunk_id, embedding),
                          !.metadata = FnSet(@, chunk_id, metadata)]
    IN IF ix.entry_point = NoId
       THEN {[ix1 EXCEPT !.graph = FnSet(@, chunk_id, {}), !.entry_point = chunk_id]}
       ELSE NSWReconnect([ix1 EXCEPT !.graph = IF chunk_id \in DOMAIN @ THEN @
                                               ELSE FnSet(@, chunk_id, {})],
                         chunk_id, embedding)

\* the filter loop of NSWIndex.search over the ranked list
RECURSIVE NSWCollect(_, _, _, _, _)
NSWCollect(metadata_map, ranked, k, filters, results) ==
    IF ranked = <<>> THEN results
    ELSE LET r1 == IF matches_filters(metadata_map, Head(ranked)[1], filters)
                   THEN Append(results, Head(ranked)) ELSE results
         IN IF Len(r1) >= k THEN r1
            ELSE NSWCollect(metadata_map, Tail(ranked), k, filters, r1)

NSWIndex_search(ix, query_embedding, k, filters) ==
    IF ix.entry_point = NoId THEN {<<>>}
    ELSE LET fetch_count == IF filters # <<>> THEN k * ix.multiplier ELSE k
             ef == Max(ix.efSearch, fetch_count)
         IN { NSWCollect(ix.metadata, ranked, k, filters, <<>>)
            : ranked \in beam_search(ix, query_embedding, ef, <<ix.entry_point>>) }

\* a removal that leaves the entry point as it was
NSWIndex_remove_keeps_entry(ix, chunk_id) ==
    LET neighbors == GraphGet(ix.graph, chunk_id)
    IN [ix EXCEPT !.graph = AsDict([x \in (DOMAIN @) \ {chunk_id} |->
                                IF x \in neighbors THEN @[x] \ {chunk_id} ELSE @[x]]),
                  !.metadata = FnDel(@, chunk_id),
                  !.chunks = DictDel(@, chunk_id)]

\* delete, steps 1-3 and the entry point: the node and its edges are removed
NSWIndex_remove(ix, chunk_id) ==
    LET neighbors == GraphGet(ix.graph, chunk_id)
        chunks1 == DictDel(ix.chunks, chunk_id)
    IN [ix EXCEPT !.graph = AsDict([x \in (DOMAIN @) \ {chunk_id} |->
                                IF x \in neighbors THEN @[x] \ {chunk_id} ELSE @[x]]),
                  !.metadata = FnDel(@, chunk_id),
                  !.chunks = chunks1,
                  !.entry_point = IF @ = chunk_id
                                  THEN (IF chunks1 = <<>> THEN NoId ELSE chunks1[1][1])
                                  ELSE @]

\* delete, step 4: each former neighbour is detached and reconnected
RECURSIVE NSWRepairAll(_, _)
NSWRepairAll(ix, todo) ==
    IF todo = {} THEN {ix}
    ELSE UNION { IF ~DictHas(ix.chunks, u) THEN NSWRepairAll(ix, todo \ {u})
                 ELSE UNION { NSWRepairAll(ix2, todo \ {u})
                            : ix2 \in NSWReconnect([ix EXCEPT !.graph = NSWDetach(@, u)],
                                                   u, DictGet(ix.chunks, u)) }
               : u \in todo }

NSWIndex_repair(ix, neighbors) ==
    IF ix.chunks = <<>> \/ ix.entry_point = NoId THEN {ix}
    ELSE NSWRepairAll(ix, neighbors)

\* the possible <<new index, returned flag>>
NSWIndex_delete(ix, chunk_id) ==
    IF ~DictHas(ix.chunks, chunk_id) THEN {<<ix, FALSE>>}
    ELSE { <<ix2, TRUE>>
         : ix2 \in NSWIndex_repair(NSWIndex_remove(ix, chunk_id),
                                   GraphGet(ix.graph, chunk_id)) }

\* an update that detaches the node and never links it again
NSWIndex_update_detached(ix, chunk_id, embedding, metadata) ==
    IF ~DictHas(ix.chunks, chunk_id) THEN {<<ix, FALSE>>}
    ELSE {<<[ix EXCEPT !.chunks = DictSet(@, chunk_id, embedding),
                       !.metadata = FnSet(@, chunk_id, metadata),
                       !.graph = NSWDetach(@, chunk_id)], TRUE>>}

NSWIndex_update(ix, chunk_id, embedding, metadata) ==
    IF ~DictHas(ix.chunks, chunk_id) THEN {<<ix, FALSE>>}
    ELSE LET ix1 == [ix EXCEPT !.chunks = DictSet(@, chunk_id, embedding),
                               !.metadata = FnSet(@, chunk_id, metadata),
                               !.graph = NSWDetach(@, chunk_id)]
         IN IF ix.entry_point = NoId
            THEN {<<[ix1 EXCEPT !.entry_point = chunk_id], TRUE>>}
            ELSE { <<ix2, TRUE>> : ix2 \in NSWReconnect(ix1, chunk_id, embedding) }

----------------------------------------------------------------------------
(* BaseIndex: the five operations, dispatched on the kind of the index *)

\* the possible indexes after add
Index_add(ix, chunk_id, embedding, metadata) ==
    CASE ix.kind = "linear" -> {LinearIndex_add(ix, chunk_id, embedding, metadata)}
      [] ix.kind = "ivf" -> {IVFIndex_add(ix, chunk_id, embedding, metadata)}
      [] OTHER -> NSWIndex_add(ix, chunk_id, embedding, metadata)

Index_index(ix) == IF ix.kind = "ivf" THEN IVFIndex_index(ix) ELSE ix

\* the possible result lists of <<chunk id, similarity>>
Index_search(ix, query_embedding, k, filters) ==
    CASE ix.kind = "linear" -> {LinearIndex_search(ix, query_embedding, k, filters)}
      [] ix.kind = "ivf" -> {IVFIndex_search(ix, query_embedding, k, filters)}
      [] OTHER -> NSWIndex_search(ix, query_embedding, k, filters)

\* the possible <<new index, returned flag>>
Index_delete(ix, chunk_id) ==
    CASE ix.kind = "linear" -> {LinearIndex_delete(ix, chunk_id)}
      [] ix.kind = "ivf" -> {IVFIndex_delete(ix, chunk_id)}
      [] OTHER -> NSWIndex_delete(ix, chunk_id)

Index_update(ix, chunk_id, embedding, metadata) ==
    CASE ix.kind = "linear" -> {LinearIndex_update(ix, chunk_id, embedding, metadata)}
      [] ix.kind = "ivf" -> {IVFIndex_update(ix, chunk_id, embedding, metadata)}
      [] OTHER -> NSWIndex_update(ix, chunk_id, embedding, metadata)

----------------------------------------------------------------------------
(* Spec: one index object driven through its five operations *)

\* the constructor calls the model starts from
\* one index of each kind; the IVF and NSW parameters are small enough for
\* two clusters, one probe, one link per node and a beam of two to matter
IndexConfigs ==
    { LinearIndex_init,
      IVFIndex_init(Some(2), Some(1), 50, 40, 4),
      NSWIndex_init(1, 2, 2, DefaultMultiplier) }

\* the chunk ids an index of this kind is driven with
IdsOf(ix) == IF ix.kind = "ivf" THEN 1..MaxIdsIVF ELSE Ids

\* the last call made on the index: its name, the id of a delete, what it
\* returned, and whether it repeats the delete that came directly before it
NoOp == [op |-> "init", id |-> NoId, ret |-> TRUE, again |-> FALSE]

\* no mutation is under way; done names the mutation committed last
NoWrite(done) ==
    [op |-> "none", id |-> NoId, embedding |-> <<>>, step |-> 0,
     neighbors |-> {}, done |-> done]

\* the service layer and the lock layer at rest
SvcInit ==
    /\ libraries = <<>>
    /\ documents = <<>>
    /\ chunks = <<>>
    /\ active_indexes = <<>>
    /\ svc = [op |-> "init", lib |-> NoId, doc |-> NoId, chunk |-> NoId,
               ok |-> TRUE, found |-> FALSE, next |-> 1]
LockInit ==
    /\ pc = <<>>
    /\ rwlock = [readers |-> {}, writer |-> 0]
    /\ wop = NoWrite("init")
    /\ seen = <<>>
svc_vars == <<libraries, documents, chunks, active_indexes, svc>>
lock_vars == <<pc, rwlock, wop, seen>>

Init ==
    /\ index \in IndexConfigs
    /\ last = NoOp
    /\ SvcInit
    /\ LockInit

Add(chunk_id, embedding, metadata) ==
    /\ index' \in Index_add(index, chunk_id, embedding, metadata)
    /\ last' = [op |-> "add", id |-> NoId, ret |-> TRUE, again |-> FALSE]
    /\ UNCHANGED <<svc_vars, lock_vars>>

Update(chunk_id, embedding, metadata) ==
    /\ \E out \in Index_update(index, chunk_id, embedding, metadata) :
          /\ index' = out[1]
          /\ last' = [op |-> "update", id |-> NoId, ret |-> out[2], again |-> FALSE]
    /\ UNCHANGED <<svc_vars, lock_vars>>

Delete(chunk_id) ==
    /\ \E out \in Index_delete(index, chunk_id) :
          /\ index' = out[1]
          /\ last' = [op |-> "delete", id |-> chunk_id, ret |-> out[2],
                     again |-> last.op = "delete" /\ last.id = chunk_id]
    /\ UNCHANGED <<svc_vars, lock_vars>>

Build ==
    /\ index' = Index_index(index)
    /\ last' = [op |-> "index", id |-> NoId, ret |-> TRUE, again |-> FALSE]
    /\ UNCHANGED <<svc_vars, lock_vars>>

\* search reads the index and changes nothing of it; ret tells whether the
\* list returned was non-empty
Search(query_embedding, k, filters) ==
    /\ \E results \in Index_search(index, query_embedding, k, filters) :
          last' = [op |-> "search", id |-> NoId, ret |-> results # <<>>, again |-> FALSE]
    /\ UNCHANGED <<index, svc_vars, lock_vars>>

Next ==
    \/ \E chunk_id \in IdsOf(index), embedding \in Vecs, metadata \in Metas :
          Add(chunk_id, embedding, metadata)
    \/ \E chunk_id \in IdsOf(index), embedding \in Vecs, metadata \in Metas :
          Update(chunk_id, embedding, metadata)
    \/ \E chunk_id \in IdsOf(index) : Delete(chunk_id)
    \/ Build
    \/ \E query_embedding \in Queries, k \in 1..MaxK, filters \in Filters :
          Search(query_embedding, k, filters)

Spec == Init /\ [][Next]_vars

----------------------------------------------------------------------------
(* Properties of one index *)

\* the key sets of the maps of an index
VectorKeys(ix) == DictKeys(ix.chunks)
PendingKeys(ix) == DictKeys(ix.unprocessed_chunks)
MetadataKeys(ix) == DOMAIN ix.metadata

\* C1, as stated: in every reachable state of an index of any kind, a chunk
\* id is a key of the vectors map if and only if it is a key of the metadata
\* map.
C1_VectorsIffMetadata == VectorKeys(index) = MetadataKeys(index)

\* C1, as the code has it: a chunk id is a key of the metadata map if and
\* only if it is a key of the vectors map or of the IVF pending map (which
\* is empty for a linear and an NSW index).
C1_MetadataIffVectorsOrPending ==
    MetadataKeys(index) = VectorKeys(index) \cup PendingKeys(index)

\* an IVF index that was built and then took one more add: the added id has
\* metadata and is pending
C1_Witness ==
    /\ index.kind = "ivf"
    /\ last.op = "add"
    /\ VectorKeys(index) # {}
    /\ PendingKeys(index) \ VectorKeys(index) # {}

\* C2: for every index kind, reachable state, query, k >= 1 and filter, the
\* list search returns has at most k entries, scores in non-increasing
\* order, and the metadata of every returned id has every field of the
\* filter at the filter's value.
C2_SearchBoundedSortedFiltered ==
    \A query_embedding \in Queries, k \in 1..MaxK, filters \in Filters :
        \A results \in Index_search(index, query_embedding, k, filters) :
            /\ Len(results) <= k
            /\ \A i \in 1..Len(results), j \in 1..Len(results) :
                   i < j => ~SimLess(results[i][2], results[j][2])
            /\ \A i \in 1..Len(results), f \in 1..Len(filters) :
                   /\ results[i][1] \in MetadataKeys(index)
                   /\ MetaGet(index.metadata[results[i][1]], filters[f][1])
                          = filters[f][2].v

\* a search has just returned, and a filtered search for two of this state
\* returns two ids of different scores while a third id fails the filter
C2_Witness ==
    /\ last.op = "search" /\ last.ret
    /\ \E query_embedding \in Queries, filters \in Filters \ {NoFilter} :
          \E results \in Index_search(index, query_embedding, MaxK, filters) :
              /\ Len(results) = MaxK
              /\ SimLess(results[MaxK][2], results[1][2])
              /\ \E c \in MetadataKeys(index) :
                     ~matches_filters(index.metadata, c, filters)

\* C8: for every index kind, directly after delete(id) returns the id is in
\* none of the vectors map, the metadata map, the IVF pending map, an IVF
\* cluster member set, the keys of the NSW graph, an NSW neighbour set.
C8_DeletedIdAbsent ==
    last.op = "delete" =>
        /\ last.id \notin VectorKeys(index)
        /\ last.id \notin MetadataKeys(index)
        /\ last.id \notin PendingKeys(index)
        /\ \A c \in 1..Len(index.cluster_members) : last.id \notin index.cluster_members[c]
        /\ last.id \notin DOMAIN index.graph
        /\ \A n \in DOMAIN index.graph : last.id \notin index.graph[n]

\* a delete has just removed an id another id was clustered or linked with
C8_Witness ==
    /\ last.op = "delete" /\ last.ret
    /\ \/ \E c \in 1..Len(index.cluster_members) : index.cluster_members[c] # {}
       \/ \E n \in DOMAIN index.graph : index.graph[n] # {}

\* C9: for every index kind, a delete(id) made directly after a delete(id)
\* returns false and leaves the whole index state as the first delete left it.
C9_SecondDeleteChangesNothing ==
    [][(last.op = "delete" /\ last'.op = "delete" /\ last'.again)
          => (last'.ret = FALSE /\ index' = index)]_vars

\* the second of two consecutive deletes of one id has just returned, on an
\* index that still holds other ids
C9_Witness ==
    /\ last.op = "delete" /\ last.again
    /\ VectorKeys(index) \cup PendingKeys(index) # {}

\* C10: in every reachable state of an NSW index the graph is symmetric and
\* no node is its own neighbour.
C10_GraphSymmetricNoSelfLoop ==
    index.kind = "nsw" =>
        \A a \in DOMAIN index.graph :
            /\ a \notin index.graph[a]
            /\ \A b \in index.graph[a] :
                   b \in DOMAIN index.graph /\ a \in index.graph[b]

\* an update has just re-linked a node of a three-node graph in which some
\* node has two neighbours
C10_Witness ==
    /\ index.kind = "nsw"
    /\ last.op = "update" /\ last.ret
    /\ Cardinality(DOMAIN index.graph) = MaxIds
    /\ \E a \in DOMAIN index.graph : Cardinality(index.graph[a]) = 2

\* C11: in every reachable state of an NSW index, entry_point is none if and
\* only if the vectors map is empty, and when it is not none it is the id of
\* a stored chunk.
C11_EntryPointIffStored ==
    index.kind = "nsw" =>
        /\ (index.entry_point = NoId) <=> (index.chunks = <<>>)
        /\ index.entry_point # NoId => DictHas(index.chunks, index.entry_point)

\* a delete has just removed the only stored node, which was the entry point
C11_Witness ==
    /\ index.kind = "nsw"
    /\ last.op = "delete" /\ last.ret
    /\ index.chunks = <<>>
    /\ index.entry_point = NoId

\* the nodes a path of graph edges leads to from the nodes of start
RECURSIVE ReachableFrom(_, _)
ReachableFrom(graph, start) ==
    LET more == start \cup UNION {GraphGet(graph, n) : n \in start}
    IN IF more = start THEN start ELSE ReachableFrom(graph, more)

\* C12: in an NSW index, after delete(id) of a stored node, every chunk that
\* was a neighbour of id just before the delete and is still stored is
\* reachable from entry_point by a path in the graph.
C12_NeighboursStayReachable ==
    [][(index.kind = "nsw" /\ last'.op = "delete" /\ last'.ret)
          => \A u \in GraphGet(index.graph, last'.id) \cap VectorKeys(index') :
                 u \in ReachableFrom(index'.graph, {index'.entry_point})]_vars

\* C37: in every reachable state of an NSW index, after any sequence of add,
\* update and delete (update or delete-repair of the entry point included),
\* every stored chunk id is reachable from entry_point by a path in the
\* graph, so a search with k and ef at least the number of stored chunks can
\* return every stored chunk.
C37_EveryStoredIdReachable ==
    (index.kind = "nsw" /\ index.entry_point # NoId) =>
        LET n == Cardinality(VectorKeys(index))
        IN /\ VectorKeys(index) \subseteq ReachableFrom(index.graph, {index.entry_point})
           /\ \A q \in Queries :
                 \E results \in NSWIndex_search([index EXCEPT !.efSearch = Max(@, n)],
                                                q, n, NoFilter) :
                     {results[i][1] : i \in 1..Len(results)} = VectorKeys(index)

\* the ids in the cluster member sets of an IVF index
ClusteredKeys(ix) == UNION {ix.cluster_members[c] : c \in 1..Len(ix.cluster_members)}

\* C13: in every reachable state of an IVF index the cluster member sets are
\* pairwise disjoint and their union has as many ids as are in vectors and
\* not in pending.
C13_ClustersPartitionProcessed ==
    index.kind = "ivf" =>
        /\ \A a \in 1..Len(index.cluster_members), b \in 1..Len(index.cluster_members) :
               a # b => index.cluster_members[a] \cap index.cluster_members[b] = {}
        /\ Cardinality(ClusteredKeys(index))
               = Cardinality(VectorKeys(index) \ PendingKeys(index))

\* the ids an index stores, processed or pending
StoredKeys(ix) == VectorKeys(ix) \cup PendingKeys(ix)

\* C14: in an IVF index an id that was added stays stored until it is
\* deleted, whatever add, update, index or search comes after, and every
\* unfiltered search whose k is at least the number of stored chunks returns
\* every stored id, with or without centroids and whether the id is pending
\* or clustered.
C14_AddedIdIsFound ==
    /\ [](index.kind = "ivf" =>
            \A query_embedding \in Queries, k \in 1..MaxK :
                k >= Cardinality(StoredKeys(index)) =>
                    \A id \in StoredKeys(index) :
                        \E i \in 1..Len(IVFIndex_search(index, query_embedding, k, NoFilter)) :
                            IVFIndex_search(index, query_embedding, k, NoFilter)[i][1] = id)
    /\ [][index.kind = "ivf" =>
            \A id \in StoredKeys(index) :
                \/ last'.op = "delete" /\ last'.id = id
                \/ id \in StoredKeys(index')]_vars

\* a search has just returned results from an IVF index that has centroids
\* from an earlier build, a clustered id, and a pending id added since
C14_Witness ==
    /\ index.kind = "ivf"
    /\ last.op = "search" /\ last.ret
    /\ index.centroids # <<>>
    /\ ClusteredKeys(index) # {}
    /\ PendingKeys(index) \ VectorKeys(index) # {}

\* C15: in an IVF index, directly after index() a second index() leaves
\* centroids and cluster_members exactly as the first produced them and
\* leaves pending empty.
C15_SecondBuildChangesNothing ==
    (index.kind = "ivf" /\ last.op = "index") =>
        /\ IVFIndex_index(index).centroids = index.centroids
        /\ IVFIndex_index(index).cluster_members = index.cluster_members
        /\ IVFIndex_index(index).unprocessed_chunks = <<>>
        /\ index.unprocessed_chunks = <<>>

\* index() has just built two clusters
C15_Witness ==
    /\ index.kind = "ivf"
    /\ last.op = "index"
    /\ Len(index.centroids) = 2
    /\ \A c \in 1..2 : index.cluster_members[c] # {}

\* C16: for every index kind and every reachable state, update(id, v, m)
\* with an id the index does not store returns false and leaves the whole
\* index as it was.
C16_UpdateUnknownFails ==
    \A chunk_id \in IdsOf(index) \ StoredKeys(index), embedding \in Vecs, metadata \in Metas :
        Index_update(index, chunk_id, embedding, metadata) = {<<index, FALSE>>}

\* an update of an id that is not stored has just returned false on an
\* index that stores another id
C16_Witness ==
    /\ last.op = "update" /\ ~last.ret
    /\ StoredKeys(index) # {}

\* C21: an unfiltered search of the linear index with k >= 1 over n stored
\* chunks returns exactly min(k, n) distinct stored ids, each with its own
\* similarity to the query; no stored chunk that is left out is strictly more
\* similar to the query than a returned one, and a chunk strictly more
\* similar than every other stored chunk comes first.
LinearSim(ix, c, q) == cosine_similarity(DictGet(ix.chunks, c), q)
C21_LinearSearchIsExactTopK ==
    index.kind = "linear" =>
        \A q \in Queries : \A k \in 1..MaxK :
            LET results == LinearIndex_search(index, q, k, NoFilter)
                returned == {results[i][1] : i \in 1..Len(results)}
                stored == VectorKeys(index)
            IN /\ Len(results) = Min(k, Cardinality(stored))
               /\ Cardinality(returned) = Len(results)
               /\ returned \subseteq stored
               /\ \A i \in 1..Len(results) :
                      SimEq(results[i][2], LinearSim(index, results[i][1], q))
               /\ \A c \in stored \ returned : \A r \in returned :
                      ~SimLess(LinearSim(index, r, q), LinearSim(index, c, q))
               /\ \A c \in stored :
                      (\A d \in stored \ {c} :
                           SimLess(LinearSim(index, d, q), LinearSim(index, c, q)))
                      => results[1][1] = c
\* a search has run on a full linear index where, for some query, one chunk
\* is strictly the most similar and another is strictly less similar than it
C21_Witness ==
    /\ index.kind = "linear"
    /\ last.op = "search"
    /\ Cardinality(VectorKeys(index)) = MaxIds
    /\ \E q \in Queries : \E c \in VectorKeys(index) :
           /\ \A d \in VectorKeys(index) \ {c} :
                  SimLess(LinearSim(index, d, q), LinearSim(index, c, q))
           /\ LinearIndex_search(index, q, 1, NoFilter)[1][1] = c
           /\ c # DictKeyList(index.chunks)[1]

\* C22: in every reachable state of a linear, IVF (built or not) or NSW
\* index with the default multiplier, every search with k not smaller than
\* the number of stored chunks returns, as a set, exactly the stored ids
\* whose metadata match the filter (all stored ids when there is no filter).
MatchingKeys(ix, filters) ==
    {c \in StoredKeys(ix) : matches_filters(ix.metadata, c, filters)}
ReturnedKeys(results) == {results[i][1] : i \in 1..Len(results)}
FullSearchIsExact(ix) ==
    \A q \in Queries : \A f \in Filters :
        \A k \in Max(1, Cardinality(StoredKeys(ix)))..MaxIds :
            \A results \in Index_search([ix EXCEPT !.multiplier = DefaultMultiplier], q, k, f) :
                ReturnedKeys(results) = MatchingKeys(ix, f)
C22_FullSearchReturnsAllMatching == FullSearchIsExact(index)

\* SpecNSW: the index operations on NSW indexes whose query beam is wider
\* than the construction beam, or narrower
NSWConfigs ==
    { NSWIndex_init(1, 2, 3, DefaultMultiplier),
      NSWIndex_init(1, 2, 1, DefaultMultiplier) }
InitNSW ==
    /\ index \in NSWConfigs
    /\ last = NoOp
    /\ SvcInit
    /\ LockInit
SpecNSW == InitNSW /\ [][Next]_vars

\* after update(id, v, m) of a stored id, every unfiltered search with query
\* v and k = 1 returns id, when no other stored vector is as similar to v
NearestIsItself(ix, id, v) ==
    \A c \in VectorKeys(ix) \ {id} :
        SimLess(cosine_similarity(DictGet(ix.chunks, c), v), cosine_similarity(v, v))
UpdateThenSearchFinds(ix) ==
    \A id \in VectorKeys(ix) : \A v \in Vecs : \A m \in Metas :
        \A out \in NSWIndex_update(ix, id, v, m) :
            /\ out[2]
            /\ NearestIsItself(out[1], id, v) =>
                   \A results \in NSWIndex_search(out[1], v, 1, NoFilter) :
                       results # <<>> /\ results[1][1] = id

----------------------------------------------------------------------------
(* SpecIVF: the index operations on IVF indexes built with negative          *)
(* parameters, and with as many probes as clusters                           *)

IVFConfigs ==
    { IVFIndex_init(Some(-5), Some(-2), -50, -10, -3),
      IVFIndex_init(None, None, -50, -10, -3),
      IVFIndex_init(Some(2), Some(2), DefaultClusterRatio, DefaultProbeRatio,
                    DefaultMultiplier) }
InitIVF ==
    /\ index \in IVFConfigs
    /\ last = NoOp
    /\ SvcInit
    /\ LockInit
SpecIVF == InitIVF /\ [][Next]_vars

\* the parameters an index holds; a count that was not given is not negative
HeldNegative(ix) ==
    \/ ix.multiplier < 0
    \/ ix.explicit_n_clusters.some /\ ix.explicit_n_clusters.v < 0
    \/ ix.explicit_default_n_probes.some /\ ix.explicit_default_n_probes.v < 0
RatiosClamped(ix) == ix.cluster_ratio >= 0 /\ ix.probe_ratio >= 0
\* index() succeeds and an unfiltered search over a non-empty index returns
\* at least one result
BuildThenSearchWorks(ix) ==
    LET built == IVFIndex_index(ix)
    IN StoredKeys(ix) # {} =>
           /\ built.unprocessed_chunks = <<>>
           /\ Len(built.centroids) \in 1..Len(built.chunks)
           /\ built.computed_n_probes.some
           /\ built.computed_n_probes.v \in 1..Len(built.centroids)
           /\ \A q \in Queries : \A k \in 1..MaxK :
                  IVFIndex_search(built, q, k, NoFilter) # <<>>

ClampOpt(o) == IF o.some THEN Some(Max(0, o.v)) ELSE o
AsIfClamped(ix) ==
    [ix EXCEPT !.multiplier = Max(0, @),
               !.explicit_n_clusters = ClampOpt(@),
               !.explicit_default_n_probes = ClampOpt(@)]

C29_WalkVisitsProbesCentroids ==
    (index.kind = "ivf" /\ index.centroids # <<>>) =>
        \A q \in Queries : \A k \in 1..MaxK : \A f \in Filters :
            LET fetch_count == IF f # <<>> THEN k * index.multiplier ELSE k
                probes == IVFSearchProbes(index)
            IN ProbeVisits(index, IVFRankedIndices(index, q), index.unprocessed_chunks,
                           fetch_count, probes)
                   >= Min(probes, Len(index.centroids))

\* the clusters of an index that hold an id
ClustersOf(ix, id) == {c \in 1..Len(ix.cluster_members) : id \in ix.cluster_members[c]}
\* every unfiltered search with k not smaller than the number of stored
\* chunks returns the id
FullSearchReturns(ix, id) ==
    \A q \in Queries : \A k \in Max(1, Cardinality(StoredKeys(ix)))..MaxIdsIVF :
        id \in ReturnedKeys(IVFIndex_search(ix, q, k, NoFilter))

\* C30: in an IVF index, update(id, v, m) of a stored id removes id from the
\* vectors and from every cluster set, stores v in pending, replaces the
\* metadata and leaves the centroids unchanged; a search with k not smaller
\* than the number of stored chunks then returns id without a rebuild; after
\* the next index() id is in exactly one cluster, pending is empty and id is
\* still returned.
C30_UpdateMovesIdToPending ==
    index.kind = "ivf" =>
        \A id \in StoredKeys(index) : \A v \in Vecs : \A m \in Metas :
            LET out == IVFIndex_update(index, id, v, m)
                updated == out[1]
                built == IVFIndex_index(updated)
            IN /\ out[2]
               /\ id \notin VectorKeys(updated)
               /\ ClustersOf(updated, id) = {}
               /\ DictHas(updated.unprocessed_chunks, id)
               /\ DictGet(updated.unprocessed_chunks, id) = v
               /\ updated.metadata[id] = m
               /\ updated.centroids = index.centroids
               /\ FullSearchReturns(updated, id)
               /\ Cardinality(ClustersOf(built, id)) = 1
               /\ built.unprocessed_chunks = <<>>
               /\ FullSearchReturns(built, id)
\* an update has just moved a chunk of a built index to pending: the index
\* has centroids, a cluster left empty, and a pending chunk that is not among
\* the vectors
C30_Witness ==
    /\ index.kind = "ivf"
    /\ last.op = "update" /\ last.ret
    /\ index.centroids # <<>>
    /\ \E c \in 1..Len(index.cluster_members) : index.cluster_members[c] = {}
    /\ PendingKeys(index) # {}
    /\ PendingKeys(index) \cap VectorKeys(index) = {}
    /\ VectorKeys(index) # {}

\* the effective cluster count of index() on n chunks: the explicit count if
\* set, else round(n * cluster_ratio), clamped to [1, n]
EffectiveClusters(ix, n) ==
    LET k0 == IF ix.explicit_n_clusters.some THEN ix.explicit_n_clusters.v
              ELSE RoundHalfEven(n * ix.cluster_ratio, 100)
    IN Max(1, Min(k0, n))

\* C31: immediately after IVF index() on a state with n >= 1 chunks in the
\* vectors and pending together, pending is empty, the number of centroids
\* is the effective cluster count and lies in [1, n], the cluster member
\* sets partition the keys of the vectors, and the effective probe count lies
\* in [1, number of centroids]; with no chunks, the centroids and the cluster
\* members are empty.
C31_IndexBuildsPartition ==
    index.kind = "ivf" =>
        LET built == IVFIndex_index(index)
            n == Cardinality(StoredKeys(index))
            k == Len(built.centroids)
        IN /\ built.unprocessed_chunks = <<>>
           /\ VectorKeys(built) = StoredKeys(index)
           /\ Len(built.cluster_members) = k
           /\ IF n = 0 THEN k = 0
              ELSE /\ k = EffectiveClusters(index, n)
                   /\ k \in 1..n
                   /\ \A id \in VectorKeys(built) :
                          Cardinality(ClustersOf(built, id)) = 1
                   /\ ClusteredKeys(built) = VectorKeys(built)
                   /\ built.computed_n_probes.some
                   /\ built.computed_n_probes.v \in 1..k
\* index() has just clustered two chunks into two clusters of one chunk each
C31_Witness ==
    /\ index.kind = "ivf"
    /\ last.op = "index"
    /\ Cardinality(VectorKeys(index)) = 2
    /\ Len(index.centroids) = 2
    /\ \A c \in 1..2 : Cardinality(index.cluster_members[c]) = 1
    /\ index.unprocessed_chunks = <<>>
    /\ index.computed_n_probes = Some(2)


----------------------------------------------------------------------------
(* SpecFilter: the filter evaluator called on its own *)

\* the values of a metadata field, JSON null among them, and the records
\* over the fields "tag" and "n"; a field may be absent
TagValues == {VStr(<<"x">>), VStr(<<"X", "y">>), VNone}
NumValues == {VInt(1), VInt(2)}
FilterRecords ==
    {<<>>}
    \cup {<<(<<"tag", t>>)>> : t \in TagValues}
    \cup {<<(<<"n", n>>)>> : n \in NumValues}
    \cup {<<(<<"tag", t>>), (<<"n", n>>)>> : t \in TagValues, n \in NumValues}

\* operator names: the nine the evaluator knows and one it does not
KnownOperators == {"eq", "ne", "gt", "gte", "lt", "lte", "contains", "in", "nin"}
Operators == KnownOperators \cup {"regex"}
ExpectedValues == {VStr(<<"x">>), VInt(1), VList(<<VStr(<<"x">>)>>), VNone}
\* what a filter gives for one field: a scalar, one operator, two operators
OnePairs == {<<o, e>> : o \in Operators, e \in ExpectedValues}
TwoPairs ==
    { <<(<<"gte", VInt(1)>>), (<<"lt", VInt(2)>>)>>,
      <<(<<"gte", VInt(2)>>), (<<"regex", VInt(1)>>)>>,
      <<(<<"regex", VStr(<<"x">>)>>), (<<"contains", VStr(<<"x">>)>>)>>,
      <<(<<"ne", VStr(<<"x">>)>>), (<<"ne", VNone>>)>> }
FieldSpecs ==
    {Scalar(e) : e \in ExpectedValues}
    \cup {OpDict(<<p>>) : p \in OnePairs}
    \cup {OpDict(ops) : ops \in TwoPairs}
    \cup {OpDict(<<>>)}
SmallSpecs ==
    { Scalar(VStr(<<"x">>)), Scalar(VInt(1)), OpDict(<<(<<"regex", VInt(1)>>)>>),
      OpDict(<<(<<"ne", VInt(1)>>)>>), OpDict(<<(<<"contains", VStr(<<"x">>)>>)>>) }
FilterDicts ==
    {NoFilter}
    \cup {<<(<<f, fs>>)>> : f \in {"tag", "n"}, fs \in FieldSpecs}
    \cup {<<(<<"tag", a>>), (<<"n", b>>)>> : a \in SmallSpecs, b \in SmallSpecs}

\* a call not yet made, and the calls the specification starts from
NoCall(fn) ==
    [op |-> fn, done |-> FALSE, metadata |-> <<>>, filters |-> <<>>,
     field_value |-> VNone, operator |-> "", expected_value |-> VNone,
     ret |-> FALSE, raised |-> FALSE]
InitFilter ==
    /\ last \in
          {[NoCall("matches_filters") EXCEPT !.metadata = m, !.filters = f]
             : m \in FilterRecords, f \in FilterDicts}
          \cup {[NoCall("apply_operator") EXCEPT !.field_value = v, !.operator = o,
                                               !.expected_value = e]
                  : v \in (TagValues \cup NumValues) \ {VNone},
                    o \in Operators, e \in ExpectedValues}
    /\ index = LinearIndex_init
    /\ SvcInit
    /\ LockInit

\* _matches_filters(chunk_id, filters) on an index whose metadata map holds
\* the record under chunk id 1
MatchFilters ==
    /\ last.op = "matches_filters" /\ ~last.done
    /\ last' = [last EXCEPT
                  !.done = TRUE,
                  !.ret = matches_filters(<<last.metadata>>, 1, last.filters),
                  !.raised = \E i \in 1..Len(normalize_filters(last.filters)) :
                      LET fs == normalize_filters(last.filters)[i]
                          fv == MetaGet(last.metadata, fs[1])
                      IN fv # VNone /\ \E j \in 1..Len(fs[2]) :
                             apply_operator_raises(fv, fs[2][j][1], fs[2][j][2])]
    /\ UNCHANGED <<index, svc_vars, lock_vars>>

\* _apply_operator(field_value, operator, expected_value)
ApplyOperator ==
    /\ last.op = "apply_operator" /\ ~last.done
    /\ last' = [last EXCEPT
                  !.done = TRUE,
                  !.ret = apply_operator(last.field_value, last.operator,
                                         last.expected_value),
                  !.raised = apply_operator_raises(last.field_value, last.operator,
                                                   last.expected_value)]
    /\ UNCHANGED <<index, svc_vars, lock_vars>>

NextFilter == MatchFilters \/ ApplyOperator
SpecFilter == InitFilter /\ [][NextFilter]_vars

\* what the filter asks of a record, read off the filter as it was given
FieldHolds(metadata, field_name, spec) ==
    /\ DictHas(metadata, field_name)
    /\ IF spec.dict
       THEN \A j \in 1..Len(spec.ops) :
                apply_operator(DictGet(metadata, field_name), spec.ops[j][1], spec.ops[j][2])
       ELSE apply_operator(DictGet(metadata, field_name), "eq", spec.v)
FilterHolds(metadata, filters) ==
    \A i \in 1..Len(filters) : FieldHolds(metadata, filters[i][1], filters[i][2])

\* C24: a filter matches a record if and only if, for every field named in
\* the filter, the field is present in the record and every operator given
\* for that field holds of its value; a scalar filter value means eq with
\* that scalar, and the empty filter matches every record.
C24_FilterMatchesIffEveryFieldHolds ==
    (last.op = "matches_filters" /\ last.done)
        => (last.ret <=> FilterHolds(last.metadata, last.filters))

\* the filter without the operators the evaluator does not know; every field
\* it names stays named
DropUnknown(filters) ==
    AsList([i \in 1..Len(filters) |->
        IF filters[i][2].dict
        THEN <<filters[i][1],
               OpDict(SelectSeq(filters[i][2].ops, LAMBDA p : p[1] \in KnownOperators))>>
        ELSE filters[i]])
UsesUnknown(filters) ==
    \E i \in 1..Len(filters) :
        filters[i][2].dict /\ \E j \in 1..Len(filters[i][2].ops) :
            filters[i][2].ops[j][1] \notin KnownOperators

\* C25: a filter that uses an operator name outside eq, ne, gt, gte, lt,
\* lte, contains, in, nin never raises an error, and that operator evaluates
\* to true for every metadata record: applied to a value it returns true, and
\* in a filter it matches the records the filter without it matches.
C25_UnknownOperatorMatchesAll ==
    /\ (last.op = "apply_operator" /\ last.done /\ last.operator \notin KnownOperators)
           => (last.ret /\ ~last.raised)
    /\ (last.op = "matches_filters" /\ last.done /\ UsesUnknown(last.filters))
           => /\ ~last.raised
              /\ last.ret = matches_filters(<<last.metadata>>, 1, DropUnknown(last.filters))
\* a filter with an unknown operator and a known one has matched a record
C25_Witness ==
    /\ last.op = "matches_filters" /\ last.done
    /\ last.ret
    /\ \E i \in 1..Len(last.filters) :
           /\ last.filters[i][2].dict
           /\ Len(last.filters[i][2].ops) = 2
           /\ \E j \in 1..2 : last.filters[i][2].ops[j][1] \notin KnownOperators

----------------------------------------------------------------------------
(* The services, their repositories and the index registry *)

\* uuid4() values: every new record takes the next one, none is used twice
Uuids == 1..MaxUuid
IndexTypes == {"linear", "ivf", "nsw"}

\* the repositories and the registry as one value the services work on
Stores == [libraries |-> libraries, documents |-> documents, chunks |-> chunks,
           active_indexes |-> active_indexes]

\* index.add and index.delete on an index of the registry, which holds
\* what create_index returns: linear and IVF indexes only
Registered_add(ix, chunk_id, embedding, metadata) ==
    IF ix.kind = "linear" THEN LinearIndex_add(ix, chunk_id, embedding, metadata)
    ELSE IVFIndex_add(ix, chunk_id, embedding, metadata)
Registered_delete(ix, chunk_id) ==
    IF ix.kind = "linear" THEN LinearIndex_delete(ix, chunk_id)[1]
    ELSE IVFIndex_delete(ix, chunk_id)[1]

\* params.get(name, default) for the keyword arguments of IVFIndex
ParamOr(params, name, default) ==
    IF DictHas(params, name) THEN DictGet(params, name) ELSE default
ParamOpt(params, name) ==
    IF DictHas(params, name) THEN Some(DictGet(params, name)) ELSE None

\* factory.create_index: ok is FALSE when it raises ValueError
create_index(index_type, params) ==
    IF index_type = "linear" THEN [ok |-> TRUE, index |-> LinearIndex_init]
    ELSE IF index_type = "ivf"
    THEN [ok |-> TRUE,
          index |-> IVFIndex_init(ParamOpt(params, "n_clusters"),
                                  ParamOpt(params, "n_probes"),
                                  ParamOr(params, "cluster_ratio", DefaultClusterRatio),
                                  ParamOr(params, "probe_ratio", DefaultProbeRatio),
                                  ParamOr(params, "multiplier", DefaultMultiplier))]
    ELSE [ok |-> FALSE, index |-> BlankIndex]

\* a create that binds a new index whatever the registry held
create_index_for_library_rebinds(st, library_id, index_type, params) ==
    LET made == create_index(index_type, params)
    IN IF made.ok
       THEN [st |-> [st EXCEPT !.active_indexes = FnSet(@, library_id, made.index)],
             ok |-> TRUE, err |-> "none"]
       ELSE [st |-> st, ok |-> FALSE, err |-> "value"]

\* IndexService.create_index_for_library: ok is FALSE when it raises, err
\* names what it raised (AlreadyExistsError, or the ValueError of the factory)
create_index_for_library(st, library_id, index_type, params) ==
    IF library_id \in DOMAIN st.active_indexes
    THEN [st |-> st, ok |-> FALSE, err |-> "already_exists"]
    ELSE LET made == create_index(index_type, params)
         IN IF made.ok
            THEN [st |-> [st EXCEPT !.active_indexes = FnSet(@, library_id, made.index)],
                  ok |-> TRUE, err |-> "none"]
            ELSE [st |-> st, ok |-> FALSE, err |-> "value"]

\* IndexService.delete_index_for_library
delete_index_for_library(st, library_id) ==
    [st EXCEPT !.active_indexes = FnDel(@, library_id)]

\* LibraryService.create: the record is saved, then the index is created
LibraryService_create(st, id, index_type, index_params) ==
    LET saved == [st EXCEPT !.libraries =
                      FnSet(@, id, [index_type |-> index_type, documents |-> {}])]
    IN create_index_for_library(saved, id, index_type, index_params)

\* ChunkService.get_by_id: TRUE when it returns the chunk, FALSE when it
\* raises NotFoundError
ChunkService_get_by_id(st, chunk_id, library_id, document_id) ==
    /\ chunk_id \in DOMAIN st.chunks
    /\ st.chunks[chunk_id].library_id = library_id
    /\ document_id.some => st.chunks[chunk_id].document_id = document_id.v

\* ChunkService.delete(chunk_id, library_id, document_id=None): ok is FALSE
\* when remove_chunk_from_document raises NotFoundError
ChunkService_delete(st, chunk_id, library_id, document_id) ==
    IF ~ChunkService_get_by_id(st, chunk_id, library_id, document_id)
    THEN [st |-> st, ok |-> TRUE]
    ELSE LET chunk == st.chunks[chunk_id]
             st1 == IF library_id \in DOMAIN st.active_indexes
                    THEN [st EXCEPT !.active_indexes[library_id] =
                              Registered_delete(@, chunk_id)]
                    ELSE st
         IN IF chunk.document_id \notin DOMAIN st1.documents
            THEN [st |-> st1, ok |-> FALSE]
            ELSE [st |-> [st1 EXCEPT !.documents[chunk.document_id].chunks = @ \ {chunk_id},
                                     !.chunks = FnDel(@, chunk_id)],
                  ok |-> TRUE]

\* a lookup that does not compare the library of the document
DocumentService_get_by_id_any_library(st, document_id, library_id) ==
    document_id \in DOMAIN st.documents

\* DocumentService.get_by_id: TRUE when it returns the document
DocumentService_get_by_id(st, document_id, library_id) ==
    /\ document_id \in DOMAIN st.documents
    /\ st.documents[document_id].library_id = library_id

\* the loop of DocumentService.delete over the chunk ids of the document:
\* each call is self._chunk_service.delete(chunk_id, document_id, library_id),
\* which binds document_id to the parameter library_id and library_id to
\* the parameter document_id
RECURSIVE DeleteChunksOf(_, _, _, _)
DeleteChunksOf(st, chunk_ids, document_id, library_id) ==
    IF chunk_ids = {} THEN [st |-> st, ok |-> TRUE]
    ELSE LET chunk_id == CHOOSE c \in chunk_ids : TRUE
             r == ChunkService_delete(st, chunk_id, document_id, Some(library_id))
         IN IF ~r.ok THEN r
            ELSE DeleteChunksOf(r.st, chunk_ids \ {chunk_id}, document_id, library_id)

\* DocumentService.delete(document_id, library_id): found tells whether the
\* document was in the library, ok is FALSE when a call it makes raises
DocumentService_delete(st, document_id, library_id) ==
    IF ~DocumentService_get_by_id(st, document_id, library_id)
    THEN [st |-> st, ok |-> TRUE, found |-> FALSE]
    ELSE LET r == DeleteChunksOf(st, st.documents[document_id].chunks,
                                 document_id, library_id)
         IN IF ~r.ok THEN [st |-> r.st, ok |-> FALSE, found |-> TRUE]
            ELSE IF library_id \notin DOMAIN r.st.libraries
            THEN [st |-> r.st, ok |-> FALSE, found |-> TRUE]
            ELSE [st |-> [r.st EXCEPT !.libraries[library_id].documents = @ \ {document_id},
                                      !.documents = FnDel(@, document_id)],
                  ok |-> TRUE, found |-> TRUE]

\* the loop of LibraryService.delete over the document ids of the library
RECURSIVE DeleteDocumentsOf(_, _, _)
DeleteDocumentsOf(st, document_ids, id) ==
    IF document_ids = {} THEN [st |-> st, ok |-> TRUE]
    ELSE LET document_id == CHOOSE d \in document_ids : TRUE
             r == DocumentService_delete(st, document_id, id)
         IN IF ~r.ok THEN [st |-> r.st, ok |-> FALSE]
            ELSE DeleteDocumentsOf(r.st, document_ids \ {document_id}, id)

\* LibraryService.delete(id): the documents, then the index, then the record
LibraryService_delete(st, id) ==
    IF id \notin DOMAIN st.libraries THEN [st |-> st, ok |-> TRUE, found |-> FALSE]
    ELSE LET r == DeleteDocumentsOf(st, st.libraries[id].documents, id)
         IN IF ~r.ok THEN [st |-> r.st, ok |-> FALSE, found |-> TRUE]
            ELSE [st |-> [delete_index_for_library(r.st, id)
                              EXCEPT !.libraries = FnDel(@, id)],
                  ok |-> TRUE, found |-> TRUE]

\* DocumentService.create(library_id, metadata) with the new document's id
DocumentService_create(st, library_id, new_id) ==
    IF library_id \notin DOMAIN st.libraries THEN [st |-> st, ok |-> FALSE]
    ELSE [st |-> [st EXCEPT !.documents =
                         FnSet(@, new_id, [library_id |-> library_id, chunks |-> {}]),
                     !.libraries[library_id].documents = @ \cup {new_id}],
          ok |-> TRUE]

\* a create that does not compare the library of the document named
ChunkService_create_any_library(st, library_id, embedding, metadata, document_id, doc_id, chunk_id) ==
    IF library_id \notin DOMAIN st.libraries
    THEN [st |-> st, ok |-> FALSE, doc |-> NoId, chunk |-> NoId]
    ELSE IF document_id.some /\ document_id.v \notin DOMAIN st.documents
    THEN [st |-> st, ok |-> FALSE, doc |-> NoId, chunk |-> NoId]
    ELSE LET st1 == IF document_id.some THEN st
                    ELSE DocumentService_create(st, library_id, doc_id).st
             document == IF document_id.some THEN document_id.v ELSE doc_id
             st2 == [st1 EXCEPT !.chunks =
                         FnSet(@, chunk_id, [library_id |-> library_id,
                                             document_id |-> document,
                                             embedding |-> embedding,
                                             metadata |-> metadata]),
                                !.documents[document].chunks = @ \cup {chunk_id}]
             index_metadata == <<(<<"document_id", VInt(document)>>),
                                 (<<"library_id", VInt(library_id)>>)>> \o metadata
         IN IF library_id \notin DOMAIN st2.active_indexes
            THEN [st |-> st2, ok |-> FALSE, doc |-> document, chunk |-> chunk_id]
            ELSE [st |-> [st2 EXCEPT !.active_indexes[library_id] =
                              Registered_add(@, chunk_id, embedding, index_metadata)],
                  ok |-> TRUE, doc |-> document, chunk |-> chunk_id]

\* ChunkService.create(library_id, text, metadata, document_id=None) with
\* the embedding of the text and the ids the new records take: the document
\* is created when none is named, the chunk is saved and attached to the
\* document, and then the index is looked up and told to add
ChunkService_create(st, library_id, embedding, metadata, document_id, doc_id, chunk_id) ==
    IF library_id \notin DOMAIN st.libraries
    THEN [st |-> st, ok |-> FALSE, doc |-> NoId, chunk |-> NoId]
    ELSE IF document_id.some /\ ~DocumentService_get_by_id(st, document_id.v, library_id)
    THEN [st |-> st, ok |-> FALSE, doc |-> NoId, chunk |-> NoId]
    ELSE LET st1 == IF document_id.some THEN st
                    ELSE DocumentService_create(st, library_id, doc_id).st
             document == IF document_id.some THEN document_id.v ELSE doc_id
             st2 == [st1 EXCEPT !.chunks =
                         FnSet(@, chunk_id, [library_id |-> library_id,
                                             document_id |-> document,
                                             embedding |-> embedding,
                                             metadata |-> metadata]),
                                !.documents[document].chunks = @ \cup {chunk_id}]
             index_metadata == <<(<<"document_id", VInt(document)>>),
                                 (<<"library_id", VInt(library_id)>>)>> \o metadata
         IN IF library_id \notin DOMAIN st2.active_indexes
            THEN [st |-> st2, ok |-> FALSE, doc |-> document, chunk |-> chunk_id]
            ELSE [st |-> [st2 EXCEPT !.active_indexes[library_id] =
                              Registered_add(@, chunk_id, embedding, index_metadata)],
                  ok |-> TRUE, doc |-> document, chunk |-> chunk_id]

\* the stores take the value a service call left; svc keeps the name of the
\* call, the ids it was about when it found them, whether it returned
\* normally, and the next unused uuid
Install(st) ==
    /\ libraries' = st.libraries
    /\ documents' = st.documents
    /\ chunks' = st.chunks
    /\ active_indexes' = st.active_indexes

\* POST /libraries
LibraryCreate(index_type) ==
    /\ svc.next <= MaxUuid
    /\ LET r == LibraryService_create(Stores, svc.next, index_type, <<>>)
       IN /\ Install(r.st)
          /\ svc' = [op |-> "library_create", lib |-> svc.next, doc |-> NoId,
                     chunk |-> NoId, ok |-> r.ok, found |-> FALSE, next |-> svc.next + 1]
    /\ UNCHANGED <<index, last, lock_vars>>

\* DELETE /libraries/{id}
LibraryDelete(id) ==
    /\ LET r == LibraryService_delete(Stores, id)
       IN /\ Install(r.st)
          /\ svc' = [svc EXCEPT !.op = "library_delete",
                                 !.lib = IF r.found THEN id ELSE NoId,
                                 !.doc = NoId, !.chunk = NoId,
                                 !.ok = r.ok, !.found = r.found]
    /\ UNCHANGED <<index, last, lock_vars>>

\* POST /libraries/{library_id}/documents
DocumentCreate(library_id) ==
    /\ svc.next <= MaxUuid
    /\ LET r == DocumentService_create(Stores, library_id, svc.next)
       IN /\ Install(r.st)
          /\ svc' = [op |-> "document_create",
                     lib |-> IF r.ok THEN library_id ELSE NoId,
                     doc |-> IF r.ok THEN svc.next ELSE NoId, chunk |-> NoId,
                     ok |-> r.ok, found |-> FALSE,
                     next |-> IF r.ok THEN svc.next + 1 ELSE svc.next]
    /\ UNCHANGED <<index, last, lock_vars>>

\* DELETE /libraries/{library_id}/documents/{document_id}
DocumentDelete(document_id, library_id) ==
    /\ LET r == DocumentService_delete(Stores, document_id, library_id)
       IN /\ Install(r.st)
          /\ svc' = [svc EXCEPT !.op = "document_delete",
                                 !.lib = IF r.found THEN library_id ELSE NoId,
                                 !.doc = IF r.found THEN document_id ELSE NoId,
                                 !.chunk = NoId, !.ok = r.ok, !.found = r.found]
    /\ UNCHANGED <<index, last, lock_vars>>

\* POST /libraries/{library_id}/chunks
ChunkCreate(library_id, embedding, document_id) ==
    /\ svc.next + (IF document_id.some THEN 0 ELSE 1) <= MaxUuid
    /\ LET doc_id == svc.next
           chunk_id == IF document_id.some THEN svc.next ELSE svc.next + 1
           r == ChunkService_create(Stores, library_id, embedding, <<>>, document_id,
                                    doc_id, chunk_id)
           used == IF r.chunk = NoId THEN 0 ELSE IF document_id.some THEN 1 ELSE 2
       IN /\ Install(r.st)
          /\ svc' = [op |-> "chunk_create",
                     lib |-> IF r.chunk = NoId THEN NoId ELSE library_id, doc |-> r.doc,
                     chunk |-> r.chunk, ok |-> r.ok, found |-> FALSE,
                     next |-> svc.next + used]
    /\ UNCHANGED <<index, last, lock_vars>>

\* DELETE /libraries/{library_id}/chunks/{chunk_id}
ChunkDelete(chunk_id, library_id) ==
    /\ LET was == ChunkService_get_by_id(Stores, chunk_id, library_id, None)
           r == ChunkService_delete(Stores, chunk_id, library_id, None)
       IN /\ Install(r.st)
          /\ svc' = [svc EXCEPT !.op = "chunk_delete",
                                 !.lib = IF was THEN library_id ELSE NoId, !.doc = NoId,
                                 !.chunk = IF was THEN chunk_id ELSE NoId,
                                 !.ok = r.ok, !.found = was]
    /\ UNCHANGED <<index, last, lock_vars>>

InitSvc ==
    /\ index = LinearIndex_init
    /\ last = NoOp
    /\ SvcInit
    /\ LockInit

NextSvc ==
    \/ \E index_type \in IndexTypes : LibraryCreate(index_type)
    \/ \E id \in Uuids : LibraryDelete(id)
    \/ \E library_id \in Uuids : DocumentCreate(library_id)
    \/ \E document_id \in Uuids, library_id \in Uuids :
          DocumentDelete(document_id, library_id)
    \/ \E library_id \in Uuids, embedding \in Vecs,
          document_id \in {None} \cup {Some(d) : d \in Uuids} :
          ChunkCreate(library_id, embedding, document_id)
    \/ \E chunk_id \in Uuids, library_id \in Uuids : ChunkDelete(chunk_id, library_id)

SpecSvc == InitSvc /\ [][NextSvc]_vars

----------------------------------------------------------------------------
(* Properties of the services *)

\* the chunk ids an index holds for a document, by the document_id its
\* add wrote into their metadata
IndexedChunksOf(ix, document_id) ==
    {c \in VectorKeys(ix) \cup PendingKeys(ix) :
        c \in MetadataKeys(ix)
        /\ MetaGet(ix.metadata[c], "document_id") = VInt(document_id)}

\* C4: after document delete(document_id, library_id) has completed for a
\* document of that library, no chunk of the document is in the chunk store
\* or in the library's index, and the document is in neither the document
\* store nor the library's document set.
C4_DocumentDeleteCascades ==
    (svc.op = "document_delete" /\ svc.found /\ svc.ok) =>
        /\ \A c \in DOMAIN chunks : chunks[c].document_id # svc.doc
        /\ svc.lib \in DOMAIN active_indexes =>
               IndexedChunksOf(active_indexes[svc.lib], svc.doc) = {}
        /\ svc.doc \notin DOMAIN documents
        /\ svc.lib \in DOMAIN libraries => svc.doc \notin libraries[svc.lib].documents

\* C5: after library delete(id) has completed for an existing library, no
\* document and no chunk of that library id is stored, the registry holds
\* no index for the id and the library record is gone.
C5_LibraryDeleteCascades ==
    (svc.op = "library_delete" /\ svc.found /\ svc.ok) =>
        /\ \A d \in DOMAIN documents : documents[d].library_id # svc.lib
        /\ \A c \in DOMAIN chunks : chunks[c].library_id # svc.lib
        /\ svc.lib \notin DOMAIN active_indexes
        /\ svc.lib \notin DOMAIN libraries

\* C6: after every completed library create or library delete, returned or
\* raised, a library record exists if and only if the registry holds an
\* index for its id.
C6_LibraryIffIndex ==
    svc.op \in {"library_create", "library_delete"} =>
        DOMAIN libraries = DOMAIN active_indexes

\* C7: creating a library of any of the kinds linear, ivf, nsw succeeds and
\* binds an index of that kind to the library in the registry.
C7_CreateEveryKind ==
    svc.op = "library_create" =>
        /\ svc.ok
        /\ svc.lib \in DOMAIN active_indexes
        /\ active_indexes[svc.lib].kind = libraries[svc.lib].index_type

\* C17: chunk delete(chunk_id, library_id) for a chunk that exists in that
\* library completes without raising, and afterwards the chunk id is absent
\* from the library's index, from every document's chunk set and from the
\* chunk store.
C17_ChunkDeleteRemovesEverywhere ==
    (svc.op = "chunk_delete" /\ svc.found) =>
        /\ svc.ok
        /\ svc.chunk \notin DOMAIN chunks
        /\ \A d \in DOMAIN documents : svc.chunk \notin documents[d].chunks
        /\ svc.lib \in DOMAIN active_indexes =>
               svc.chunk \notin StoredKeys(active_indexes[svc.lib])

----------------------------------------------------------------------------
(* SpecReg: the registry of indexes called directly *)

\* the library ids the registry is called with
LibIds == 1..MaxLibs

\* index.index() and index.search() on an index of the registry
Registered_index(ix) == IF ix.kind = "ivf" THEN IVFIndex_index(ix) ELSE ix
Registered_search(ix, query_embedding, k, filters) ==
    IF ix.kind = "linear" THEN LinearIndex_search(ix, query_embedding, k, filters)
    ELSE IVFIndex_search(ix, query_embedding, k, filters)

\* a build that makes a linear index for a library that has none
IndexService_build_index_creates(st, library_id) ==
    IF library_id \notin DOMAIN st.active_indexes
    THEN [st |-> [st EXCEPT !.active_indexes = FnSet(@, library_id, LinearIndex_init)],
          ok |-> TRUE, err |-> "none"]
    ELSE [st |-> [st EXCEPT !.active_indexes[library_id] = Registered_index(@)],
          ok |-> TRUE, err |-> "none"]

\* IndexService.build_index: raises IndexError when get_index returns None
IndexService_build_index(st, library_id) ==
    IF library_id \notin DOMAIN st.active_indexes
    THEN [st |-> st, ok |-> FALSE, err |-> "index"]
    ELSE [st |-> [st EXCEPT !.active_indexes[library_id] = Registered_index(@)],
          ok |-> TRUE, err |-> "none"]

\* IndexService.search: raises IndexError when get_index returns None
IndexService_search(st, library_id, query_embedding, k, filters) ==
    IF library_id \notin DOMAIN st.active_indexes
    THEN [ok |-> FALSE, err |-> "index", results |-> <<>>]
    ELSE [ok |-> TRUE, err |-> "none",
          results |-> Registered_search(st.active_indexes[library_id],
                                        query_embedding, k, filters)]

\* index = get_index(library_id); raise IndexError if there is none;
\* index.add(...), as ChunkService.create does it
IndexService_add(st, library_id, chunk_id, embedding, metadata) ==
    IF library_id \notin DOMAIN st.active_indexes
    THEN [st |-> st, ok |-> FALSE, err |-> "index"]
    ELSE [st |-> [st EXCEPT !.active_indexes[library_id] =
                       Registered_add(@, chunk_id, embedding, metadata)],
          ok |-> TRUE, err |-> "none"]

\* what svc keeps of a registry call: its name, the library id, whether the
\* id had an index when the call was made, and whether the call returned
RegistryCall(op, library_id, ok) ==
    [svc EXCEPT !.op = op, !.lib = library_id, !.ok = ok,
                !.found = library_id \in DOMAIN active_indexes]

RegistryCreate(library_id, index_type) ==
    /\ LET r == create_index_for_library(Stores, library_id, index_type, <<>>)
       IN /\ Install(r.st)
          /\ svc' = RegistryCall("registry_create", library_id, r.ok)
    /\ UNCHANGED <<index, last, lock_vars>>

RegistryDelete(library_id) ==
    /\ Install(delete_index_for_library(Stores, library_id))
    /\ svc' = RegistryCall("registry_delete", library_id, TRUE)
    /\ UNCHANGED <<index, last, lock_vars>>

RegistryAdd(library_id, chunk_id, embedding) ==
    /\ LET r == IndexService_add(Stores, library_id, chunk_id, embedding, <<>>)
       IN /\ Install(r.st)
          /\ svc' = RegistryCall("registry_add", library_id, r.ok)
    /\ UNCHANGED <<index, last, lock_vars>>

RegistryBuild(library_id) ==
    /\ LET r == IndexService_build_index(Stores, library_id)
       IN /\ Install(r.st)
          /\ svc' = RegistryCall("registry_build", library_id, r.ok)
    /\ UNCHANGED <<index, last, lock_vars>>

RegistrySearch(library_id, query_embedding, k) ==
    /\ LET r == IndexService_search(Stores, library_id, query_embedding, k, NoFilter)
       IN svc' = RegistryCall("registry_search", library_id, r.ok)
    /\ UNCHANGED <<index, last, libraries, documents, chunks, active_indexes, lock_vars>>

InitReg ==
    /\ index = LinearIndex_init
    /\ last = NoOp
    /\ SvcInit
    /\ LockInit

NextReg ==
    \/ \E library_id \in LibIds, index_type \in IndexTypes :
          RegistryCreate(library_id, index_type)
    \/ \E library_id \in LibIds : RegistryDelete(library_id)
    \/ \E library_id \in LibIds, chunk_id \in 1..MaxRegIds, embedding \in Vecs :
          RegistryAdd(library_id, chunk_id, embedding)
    \/ \E library_id \in LibIds : RegistryBuild(library_id)
    \/ \E library_id \in LibIds, query_embedding \in Queries, k \in 1..MaxK :
          RegistrySearch(library_id, query_embedding, k)

SpecReg == InitReg /\ [][NextReg]_vars

\* C19: in every reachable state of the registry, create for a library id
\* that has an index fails with already-exists and leaves the registry as it
\* was: the index bound to the id and all its contents stay bound.
C19_CreateExistingFails ==
    \A library_id \in DOMAIN active_indexes, index_type \in IndexTypes :
        create_index_for_library(Stores, library_id, index_type, <<>>)
            = [st |-> Stores, ok |-> FALSE, err |-> "already_exists"]

\* a create for a library id whose index holds chunks has just failed, and
\* the index still holds them
C19_Witness ==
    /\ svc.op = "registry_create" /\ svc.found /\ ~svc.ok
    /\ svc.lib \in DOMAIN active_indexes
    /\ StoredKeys(active_indexes[svc.lib]) # {}

\* C20: in every reachable state of the registry, build and search for a
\* library id that has no index fail with an index error and leave the
\* registry as it was, with no index made for the id; build on an index
\* that holds no chunks succeeds.
C20_BuildAndSearchNeedAnIndex ==
    /\ \A library_id \in LibIds \ DOMAIN active_indexes :
           /\ IndexService_build_index(Stores, library_id)
                  = [st |-> Stores, ok |-> FALSE, err |-> "index"]
           /\ \A query_embedding \in Queries, k \in 1..MaxK, filters \in Filters :
                  IndexService_search(Stores, library_id, query_embedding, k, filters)
                      = [ok |-> FALSE, err |-> "index", results |-> <<>>]
    /\ \A library_id \in DOMAIN active_indexes :
           StoredKeys(active_indexes[library_id]) = {}
           => /\ IndexService_build_index(Stores, library_id).ok
              /\ DOMAIN IndexService_build_index(Stores, library_id).st.active_indexes
                     = DOMAIN active_indexes

\* a build for a library id without an index has just failed while another
\* library id has an index
C20_Witness ==
    /\ svc.op = "registry_build" /\ ~svc.found /\ ~svc.ok
    /\ svc.lib \notin DOMAIN active_indexes
    /\ active_indexes # <<>>

----------------------------------------------------------------------------
(* SpecLock: threads calling one index through its readers-writer lock *)

Threads == 1..NThreads

\* rwlock.RWLockFair(): gen_rlock() is granted while no writer holds the
\* lock, gen_wlock() while nobody holds it
CanWriteIgnoringReaders(rw) == rw.writer = 0
CanRead(rw) == rw.writer = 0
CanWrite(rw) == rw.writer = 0 /\ rw.readers = {}

\* the mutations a writer makes, each in two parts of its locked block
WriteOps == {"add", "update", "delete", "index"}

\* the first part: an add or an update as a whole; of an NSW delete the
\* removal of the node and its edges; of an IVF index() the merge of the
\* pending chunks
FirstPart(ix, w) ==
    CASE w.op = "add" -> Index_add(ix, w.id, w.embedding, <<>>)
      [] w.op = "update" ->
            {out[1] : out \in Index_update(ix, w.id, w.embedding, <<>>)}
      [] w.op = "delete" /\ ix.kind = "nsw" ->
            IF DictHas(ix.chunks, w.id) THEN {NSWIndex_remove(ix, w.id)} ELSE {ix}
      [] w.op = "delete" /\ ix.kind = "ivf" -> {IVFIndex_delete(ix, w.id)[1]}
      [] w.op = "delete" /\ ix.kind = "linear" -> {LinearIndex_delete(ix, w.id)[1]}
      [] w.op = "index" /\ ix.kind = "ivf" -> {IVFIndex_merge(ix)}
      [] OTHER -> {ix}

\* the second part: of an NSW delete the repair of the former neighbours;
\* of an IVF index() the clustering
SecondPart(ix, w) ==
    CASE w.op = "delete" /\ ix.kind = "nsw" -> NSWIndex_repair(ix, w.neighbors)
      [] w.op = "index" /\ ix.kind = "ivf" -> {IVFIndex_cluster(ix)}
      [] OTHER -> {ix}

\* search: with self._lock.gen_rlock(), the first read of the index
BeginSearch(t) ==
    /\ pc[t] = "idle"
    /\ CanRead(rwlock)
    /\ rwlock' = [rwlock EXCEPT !.readers = @ \cup {t}]
    /\ pc' = [pc EXCEPT ![t] = "searching"]
    /\ seen' = [seen EXCEPT ![t] = index]
    /\ UNCHANGED <<index, last, svc_vars, wop>>

\* search: the last read, the return and the release of the read lock
EndSearch(t) ==
    /\ pc[t] = "searching"
    /\ rwlock' = [rwlock EXCEPT !.readers = @ \ {t}]
    /\ pc' = [pc EXCEPT ![t] = "idle"]
    /\ seen' = [seen EXCEPT ![t] = NoId]
    /\ UNCHANGED <<index, last, svc_vars, wop>>

\* add, update, delete, index: with self._lock.gen_wlock()
BeginWrite(t, op, chunk_id, embedding) ==
    /\ pc[t] = "idle"
    /\ CanWrite(rwlock)
    /\ rwlock' = [rwlock EXCEPT !.writer = t]
    /\ pc' = [pc EXCEPT ![t] = "writing"]
    /\ wop' = [op |-> op, id |-> chunk_id, embedding |-> embedding, step |-> 0,
               neighbors |-> IF op = "delete" /\ DictHas(index.chunks, chunk_id)
                             THEN GraphGet(index.graph, chunk_id) ELSE {},
               done |-> wop.done]
    /\ UNCHANGED <<index, last, svc_vars, seen>>

WriteFirst(t) ==
    /\ pc[t] = "writing" /\ wop.step = 0
    /\ index' \in FirstPart(index, wop)
    /\ wop' = [wop EXCEPT !.step = 1]
    /\ UNCHANGED <<last, svc_vars, pc, rwlock, seen>>

\* the second part, the return and the release of the write lock
WriteSecond(t) ==
    /\ pc[t] = "writing" /\ wop.step = 1
    /\ index' \in SecondPart(index, wop)
    /\ wop' = NoWrite(wop.op)
    /\ rwlock' = [rwlock EXCEPT !.writer = 0]
    /\ pc' = [pc EXCEPT ![t] = "idle"]
    /\ UNCHANGED <<last, svc_vars, seen>>

InitLock ==
    /\ index \in IndexConfigs
    /\ last = NoOp
    /\ SvcInit
    /\ pc = [t \in Threads |-> "idle"]
    /\ rwlock = [readers |-> {}, writer |-> 0]
    /\ wop = NoWrite("init")
    /\ seen = [t \in Threads |-> NoId]

NextLock ==
    \/ \E t \in Threads : BeginSearch(t)
    \/ \E t \in Threads : EndSearch(t)
    \/ \E t \in Threads, op \in WriteOps, chunk_id \in IdsOf(index), embedding \in Vecs :
          BeginWrite(t, op, chunk_id, embedding)
    \/ \E t \in Threads : WriteFirst(t)
    \/ \E t \in Threads : WriteSecond(t)

SpecLock == InitLock /\ [][NextLock]_vars

\* C3: a search holds the read lock only while no mutation of the index is
\* under way, and the index it reads stays the one it read first: it sees
\* each mutation entirely or not at all, never its middle.
C3_SearchSeesWholeMutations ==
    \A t \in rwlock.readers : wop.op = "none" /\ seen[t] = index

\* two searches run at once on an NSW graph with an edge left by a delete
\* that repaired a neighbour
C3_Witness ==
    /\ rwlock.readers = Threads
    /\ index.kind = "nsw"
    /\ wop.done = "delete"
    /\ \E a \in DOMAIN index.graph : index.graph[a] # {}

----------------------------------------------------------------------------
(* SpecUpd: threads updating one chunk through ChunkService.update, with     *)
(* searches alongside                                                        *)

\* index.update on an index of the registry
Registered_update(ix, chunk_id, embedding, metadata) ==
    IF ix.kind = "linear" THEN LinearIndex_update(ix, chunk_id, embedding, metadata)[1]
    ELSE IVFIndex_update(ix, chunk_id, embedding, metadata)[1]

\* the metadata ChunkService hands to the index for a chunk
IndexMetadataOf(chunk) ==
    <<(<<"document_id", VInt(chunk.document_id)>>),
      (<<"library_id", VInt(chunk.library_id)>>)>> \o chunk.metadata

\* a thread that is not in a call
IdleThread == [at |-> "idle", id |-> NoId, chunk |-> <<>>]

\* a library with its index and one chunk, made by the services
InitUpd ==
    /\ \E index_type \in {"linear", "ivf"}, embedding \in Vecs, metadata \in Metas :
          LET empty == [libraries |-> <<>>, documents |-> <<>>, chunks |-> <<>>,
                        active_indexes |-> <<>>]
              lib == LibraryService_create(empty, 1, index_type, <<>>).st
              st == ChunkService_create(lib, 1, embedding, metadata, None, 2, 3).st
          IN /\ libraries = st.libraries
             /\ documents = st.documents
             /\ chunks = st.chunks
             /\ active_indexes = st.active_indexes
    /\ svc = [op |-> "chunk_create", lib |-> 1, doc |-> 2, chunk |-> 3,
              ok |-> TRUE, found |-> FALSE, next |-> 4]
    /\ index = LinearIndex_init
    /\ last = NoOp
    /\ pc = [t \in Threads |-> IdleThread]
    /\ rwlock = [readers |-> {}, writer |-> 0]
    /\ wop = NoWrite("init")
    /\ seen = <<>>

\* ChunkService.update, to the call of the repository: get_by_id returns a
\* copy of the stored chunk, which takes the embedding of the new text and
\* the new metadata when they are given
UpdateLoad(t, chunk_id, library_id, text, metadata) ==
    /\ pc[t].at = "idle"
    /\ ChunkService_get_by_id(Stores, chunk_id, library_id, None)
    /\ LET chunk == chunks[chunk_id]
           c1 == IF text.some THEN [chunk EXCEPT !.embedding = text.v] ELSE chunk
           c2 == IF metadata.some THEN [c1 EXCEPT !.metadata = metadata.v] ELSE c1
       IN pc' = [pc EXCEPT ![t] = [at |-> "loaded", id |-> chunk_id, chunk |-> c2]]
    /\ UNCHANGED <<index, last, svc_vars, rwlock, wop, seen>>

\* self._chunk_repository.update(chunk_id, chunk), under the lock of the
\* repository
UpdateStore(t) ==
    /\ pc[t].at = "loaded"
    /\ chunks' = IF pc[t].id \in DOMAIN chunks THEN FnSet(chunks, pc[t].id, pc[t].chunk)
                 ELSE chunks
    /\ pc' = [pc EXCEPT ![t].at = "stored"]
    /\ UNCHANGED <<index, last, libraries, documents, active_indexes, svc,
                   rwlock, wop, seen>>

\* index = get_index(library_id); index.update(...), under the write lock of
\* the index; the call returns
UpdateIndex(t) ==
    /\ pc[t].at = "stored"
    /\ LET chunk == pc[t].chunk
       IN active_indexes' =
              IF chunk.library_id \in DOMAIN active_indexes
              THEN [active_indexes EXCEPT ![chunk.library_id] =
                        Registered_update(@, pc[t].id, chunk.embedding,
                                          IndexMetadataOf(chunk))]
              ELSE active_indexes
    /\ pc' = [pc EXCEPT ![t].at = "returned"]
    /\ UNCHANGED <<index, last, libraries, documents, chunks, svc, rwlock, wop, seen>>

\* a search of the library, under the read lock of the index
SearchAlongside(library_id, query_embedding, k) ==
    /\ LET r == IndexService_search(Stores, library_id, query_embedding, k, NoFilter)
       IN last' = [op |-> "search", id |-> NoId, ret |-> r.ok, again |-> FALSE]
    /\ UNCHANGED <<index, svc_vars, lock_vars>>

NextUpd ==
    \/ \E t \in Threads, chunk_id \in DOMAIN chunks, library_id \in DOMAIN libraries,
          text \in {None} \cup {Some(v) : v \in Vecs},
          metadata \in {None} \cup {Some(m) : m \in Metas} :
          UpdateLoad(t, chunk_id, library_id, text, metadata)
    \/ \E t \in Threads : UpdateStore(t)
    \/ \E t \in Threads : UpdateIndex(t)
    \/ \E library_id \in DOMAIN libraries, query_embedding \in Queries, k \in 1..MaxK :
          SearchAlongside(library_id, query_embedding, k)

SpecUpd == InitUpd /\ [][NextUpd]_vars

\* the embedding the index holds for a chunk
IndexedEmbedding(ix, chunk_id) ==
    IF DictHas(ix.unprocessed_chunks, chunk_id) THEN DictGet(ix.unprocessed_chunks, chunk_id)
    ELSE DictGet(ix.chunks, chunk_id)

\* C28: for any interleaving of concurrent chunk update calls on the same
\* chunk, with searches alongside, once all update calls have returned the
\* embedding and the metadata the index holds for the chunk are those of the
\* chunk record in the store.
C28_IndexAgreesWithStoreAfterUpdates ==
    (\A t \in Threads : pc[t].at \in {"idle", "returned"})
        => \A c \in DOMAIN chunks :
               LET ix == active_indexes[chunks[c].library_id]
               IN /\ IndexedEmbedding(ix, c) = chunks[c].embedding
                  /\ ix.metadata[c] = IndexMetadataOf(chunks[c])

----------------------------------------------------------------------------
(* SpecKMeans: KMeans(n_clusters, max_iters).fit(X) run loop turn by loop turn *)

KMeansMaxPoints == 3
KMeansVecs == {<<1, 0>>, <<1, 1>>, <<0, 0>>}
KMeansInputs == UNION {[1..n -> KMeansVecs] : n \in 0..KMeansMaxPoints}
ClusterCounts == (-1)..(KMeansMaxPoints + 1)
MaxItersChoices == {0, 1, KMeansMaxIters}

\* a cluster count that is taken as requested
KMeansClusterCount_unclamped(n_clusters, n_samples) == n_clusters

\* k of _initialize_centroids
KMeansClusterCount(n_clusters, n_samples) == Min(n_clusters, n_samples)

\* the call before the constructor has run
KMeansCall(X, n_clusters, max_iters) ==
    [op |-> "kmeans_fit", at |-> "new", X |-> X, n_clusters |-> n_clusters,
     max_iters |-> max_iters, k |-> 0, step |-> 0, idx |-> 0, indices |-> <<>>,
     centroids |-> <<>>, labels |-> <<>>, iters |-> 0]

InitKMeans ==
    /\ last \in {KMeansCall(X, n_clusters, max_iters) :
                    X \in KMeansInputs, n_clusters \in ClusterCounts,
                    max_iters \in MaxItersChoices}
    /\ index = LinearIndex_init
    /\ SvcInit
    /\ LockInit

\* KMeans.__init__: a cluster count that is not positive raises ValueError
KMeansConstruct ==
    /\ last.op = "kmeans_fit" /\ last.at = "new"
    /\ last' = [last EXCEPT !.at = IF last.n_clusters <= 0 THEN "error" ELSE "fit"]
    /\ UNCHANGED <<index, svc_vars, lock_vars>>

\* fit, up to the loop of _initialize_centroids: empty input returns at once
KMeansFitBegin ==
    /\ last.op = "kmeans_fit" /\ last.at = "fit"
    /\ LET n_samples == Len(last.X)
           k == KMeansClusterCount(last.n_clusters, n_samples)
       IN last' = IF last.X = <<>> THEN [last EXCEPT !.at = "done"]
                  ELSE IF k = 0 THEN [last EXCEPT !.at = "loop"]
                  ELSE [last EXCEPT !.at = "init", !.k = k,
                                    !.step = Max(1, n_samples \div k)]
    /\ UNCHANGED <<index, svc_vars, lock_vars>>

\* one turn of the while loop of _initialize_centroids
KMeansInitIterate ==
    /\ last.op = "kmeans_fit" /\ last.at = "init"
    /\ Len(last.indices) < last.k
    /\ LET n_samples == Len(last.X)
           i1 == IF last.idx >= n_samples THEN (last.idx % n_samples) + 1 ELSE last.idx
       IN last' = [last EXCEPT
                     !.indices = IF i1 \notin SeqToSet(@) THEN Append(@, i1) ELSE @,
                     !.idx = i1 + last.step]
    /\ UNCHANGED <<index, svc_vars, lock_vars>>

\* the while loop is left: the centroids are copies of the chosen inputs and
\* the labels start at 0
KMeansInitReturn ==
    /\ last.op = "kmeans_fit" /\ last.at = "init"
    /\ Len(last.indices) >= last.k
    /\ last' = [last EXCEPT
                  !.at = "loop",
                  !.centroids = AsList([j \in 1..Len(last.indices) |->
                      [s |-> last.X[(last.indices[j] % Len(last.X)) + 1], n |-> 1]]),
                  !.labels = AsList([i \in 1..Len(last.X) |-> 0])]
    /\ UNCHANGED <<index, svc_vars, lock_vars>>

\* one turn of the for loop of fit: assign, update, test the shift
KMeansIterate ==
    /\ last.op = "kmeans_fit" /\ last.at = "loop"
    /\ last.iters < last.max_iters
    /\ \E labels1 \in {AsList([i \in 1..Len(last.X) |->
                                    AssignLabel(last.X[i], last.centroids)])} :
       \E new_centroids \in {UpdateCentroids(last.X, labels1, last.centroids)} :
          LET converged == \A c \in 1..Len(last.centroids) :
                               ShiftWithinTol(last.centroids[c], new_centroids[c])
          IN last' = [last EXCEPT !.labels = labels1,
                                  !.centroids = new_centroids,
                                  !.iters = @ + 1,
                                  !.at = IF converged THEN "done" ELSE "loop"]
    /\ UNCHANGED <<index, svc_vars, lock_vars>>

\* the for loop has run max_iters times
KMeansReturn ==
    /\ last.op = "kmeans_fit" /\ last.at = "loop"
    /\ last.iters >= last.max_iters
    /\ last' = [last EXCEPT !.at = "done"]
    /\ UNCHANGED <<index, svc_vars, lock_vars>>

NextKMeans ==
    \/ KMeansConstruct
    \/ KMeansFitBegin
    \/ KMeansInitIterate
    \/ KMeansInitReturn
    \/ KMeansIterate
    \/ KMeansReturn

SpecKMeansSteps == InitKMeans /\ [][NextKMeans]_vars
\* the calling thread keeps running its call
SpecKMeans == SpecKMeansSteps /\ WF_vars(NextKMeans)

\* what holds of a call at each of its steps
KMeansStepsInRange ==
    last.op = "kmeans_fit" =>
        LET n == Len(last.X)
            kk == Min(last.n_clusters, n)
        IN /\ last.at = "error" => last.n_clusters <= 0
           /\ last.at \in {"fit", "init", "loop", "done"} => last.n_clusters >= 1
           /\ last.at = "init" =>
                 /\ Len(last.indices) <= kk
                 /\ \A i \in 1..Len(last.indices) : last.indices[i] \in 0..(n - 1)
                 /\ \A i, j \in 1..Len(last.indices) :
                        i # j => last.indices[i] # last.indices[j]
           /\ last.at \in {"loop", "done"} =>
                 /\ last.iters <= last.max_iters
                 /\ Len(last.centroids) = kk
                 /\ Len(last.labels) = n
                 /\ \A i \in 1..n : last.labels[i] \in 0..(kk - 1)
           /\ (last.at = "done" /\ last.X = <<>>) =>
                 last.centroids = <<>> /\ last.labels = <<>>

\* the steps return what kmeans_fit, the fit as the indexes call it, returns
KMeansStepsAgreeWithFit ==
    (last.op = "kmeans_fit" /\ last.at = "done" /\ last.max_iters = KMeansMaxIters) =>
        kmeans_fit(last.X, last.n_clusters)
            = [centroids |-> last.centroids, labels |-> last.labels]

\* C32: k-means fit on n input vectors with requested cluster count k >= 1
\* terminates (the initialisation loop ends after choosing min(k, n) pairwise
\* distinct in-range input positions, the main loop runs at most max_iters
\* times) and returns exactly min(k, n) centroids and n labels, each label in
\* [0, min(k, n)); empty input returns empty centroids and labels, and
\* k <= 0 is rejected as an error.
C32_FitTerminatesWithLabelsInRange ==
    /\ []KMeansStepsInRange
    /\ <>(last.at \in {"done", "error"})
\* a fit of three vectors into two clusters has returned after more than one
\* turn of its main loop
C32_Witness ==
    /\ last.op = "kmeans_fit" /\ last.at = "done"
    /\ Len(last.X) = 3 /\ last.n_clusters >= 2
    /\ Len(last.centroids) = 2
    /\ last.iters >= 2
    /\ \E i, j \in 1..3 : last.labels[i] # last.labels[j]

----------------------------------------------------------------------------
(* SpecBeam: NSWIndex._beam_search run statement by statement on the graphs *)
(* that sequences of add build                                              *)

BeamConfig == NSWIndex_init(2, 3, 3, DefaultMultiplier)

\* the lists of (id, vector) with pairwise distinct ids
BeamAdds ==
    UNION { {a \in [1..n -> Ids \X Vecs] : \A i, j \in 1..n : i # j => a[i][1] # a[j][1]}
          : n \in 1..MaxIds }

\* the indexes after the adds of a list, one after the other
RECURSIVE BeamBuilt(_, _)
BeamBuilt(ixs, adds) ==
    IF adds = <<>> THEN ixs
    ELSE BeamBuilt(UNION {NSWIndex_add(ix, Head(adds)[1], Head(adds)[2], <<>>) : ix \in ixs},
                   Tail(adds))

BeamIndexes == UNION {BeamBuilt({BeamConfig}, adds) : adds \in BeamAdds}

\* the call before its first statement; pushed_results and pushed_candidates
\* count the heappush calls per id
BeamCall(query_embedding, ef, start_ids) ==
    [op |-> "beam_search", at |-> "seed", query_embedding |-> query_embedding,
     ef |-> ef, starts |-> start_ids, start_ids |-> start_ids,
     visited |-> {}, candidates |-> <<>>, results |-> <<>>,
     node_id |-> NoId, todo |-> {},
     pushed_results |-> [i \in Ids |-> 0], pushed_candidates |-> [i \in Ids |-> 0],
     out |-> <<>>]

InitBeam ==
    /\ index \in BeamIndexes
    /\ last \in {BeamCall(q, ef, start_ids) :
                    q \in Queries, ef \in 1..(MaxIds + 1),
                    start_ids \in {<<>>} \cup {<<sid>> : sid \in Ids}}
    /\ SvcInit
    /\ LockInit

\* heappush into both heaps, results bounded at ef, and the counts
BeamPushCounted(call, sim, nid) ==
    LET st == BeamPush([candidates |-> call.candidates, results |-> call.results],
                       sim, nid, call.ef)
    IN [call EXCEPT !.candidates = st.candidates,
                    !.results = st.results,
                    !.pushed_results[nid] = @ + 1,
                    !.pushed_candidates[nid] = @ + 1]

\* if not start_ids: return []
BeamReturnEmpty ==
    /\ last.op = "beam_search" /\ last.at = "seed" /\ last.start_ids = <<>>
    /\ last.starts = <<>>
    /\ last' = [last EXCEPT !.at = "done"]
    /\ UNCHANGED <<index, svc_vars, lock_vars>>

\* one turn of the seeding loop
BeamSeedOne ==
    /\ last.op = "beam_search" /\ last.at = "seed" /\ last.start_ids # <<>>
    /\ LET sid == Head(last.start_ids)
           rest == [last EXCEPT !.start_ids = Tail(@),
                                !.at = IF Tail(last.start_ids) = <<>> THEN "loop" ELSE "seed"]
       IN last' = IF ~DictHas(index.chunks, sid) THEN rest
                  ELSE BeamPushCounted(rest,
                           cosine_similarity(DictGet(index.chunks, sid), last.query_embedding),
                           sid)
    /\ UNCHANGED <<index, svc_vars, lock_vars>>

\* one turn of the while loop up to the loop over the neighbours
BeamPop ==
    /\ last.op = "beam_search" /\ last.at = "loop" /\ last.candidates # <<>>
    /\ LET current_sim == Head(last.candidates)[1]
           node_id == Head(last.candidates)[2]
           popped == [last EXCEPT !.candidates = Tail(@)]
       IN last' =
            IF node_id \in last.visited THEN popped
            ELSE IF Len(last.results) >= last.ef /\ SimLess(current_sim, last.results[1][1])
            THEN [popped EXCEPT !.visited = @ \cup {node_id}, !.at = "break"]
            ELSE [popped EXCEPT !.visited = @ \cup {node_id},
                                !.node_id = node_id,
                                !.todo = GraphGet(index.graph, node_id),
                                !.at = IF GraphGet(index.graph, node_id) = {}
                                       THEN "loop" ELSE "expand"]
    /\ UNCHANGED <<index, svc_vars, lock_vars>>

\* one turn of the loop over the neighbours of the popped node, the set
\* iterated in any order
BeamNeighbor ==
    /\ last.op = "beam_search" /\ last.at = "expand"
    /\ \E neighbor \in last.todo :
          LET rest == [last EXCEPT !.todo = @ \ {neighbor},
                                   !.at = IF last.todo = {neighbor} THEN "loop" ELSE "expand"]
              sim == cosine_similarity(DictGet(index.chunks, neighbor), last.query_embedding)
          IN last' = IF neighbor \in last.visited THEN rest
                     ELSE IF Len(last.results) < last.ef \/ SimLess(last.results[1][1], sim)
                     THEN BeamPushCounted(rest, sim, neighbor)
                     ELSE rest
    /\ UNCHANGED <<index, svc_vars, lock_vars>>

\* the heap is emptied into out and out is sorted by similarity, descending
BeamReturn ==
    /\ last.op = "beam_search"
    /\ \/ last.at = "break"
       \/ last.at = "loop" /\ last.candidates = <<>>
    /\ last' = [last EXCEPT
                  !.at = "done",
                  !.out = SortDescBy(AsList([i \in 1..Len(last.results) |->
                              <<last.results[i][2], last.results[i][1]>>]), 2)]
    /\ UNCHANGED <<index, svc_vars, lock_vars>>

NextBeam ==
    \/ BeamReturnEmpty
    \/ BeamSeedOne
    \/ BeamPop
    \/ BeamNeighbor
    \/ BeamReturn

SpecBeam == InitBeam /\ [][NextBeam]_vars

\* the statements return what beam_search, the search as the index
\* operations call it, returns
BeamStepsAgreeWithSearch ==
    (last.op = "beam_search" /\ last.at = "done") =>
        last.out \in beam_search(index, last.query_embedding, last.ef, last.starts)

\* C33: in NSW beam search, for every graph and every start node, each node
\* is inserted into results at most once, namely when it is first popped
\* from candidates and marked visited, and no node is enqueued into
\* candidates more than once; the returned list has at most ef entries.
C33_BeamInsertsEachNodeOnce ==
    last.op = "beam_search" =>
        /\ \A id \in Ids : last.pushed_results[id] <= 1
        /\ \A id \in Ids : last.pushed_candidates[id] <= 1
        /\ \A i \in 1..Len(last.results) : last.results[i][2] \in last.visited
        /\ Len(last.out) <= last.ef

\* the part of C33 that the code keeps: the returned list has at most ef
\* entries and only stored ids
BeamOutputWithinEf ==
    last.op = "beam_search" =>
        /\ Len(last.results) <= last.ef
        /\ Len(last.out) <= last.ef
        /\ \A i \in 1..Len(last.out) : DictHas(index.chunks, last.out[i][1])

----------------------------------------------------------------------------
(* SpecGrow: an NSW index with three links per insertion grown by add *)

GrowConfig == NSWIndex_init(3, 4, 4, DefaultMultiplier)
GrowIds == 1..(MaxIds + 1)

InitGrow ==
    /\ index = GrowConfig
    /\ last = NoOp
    /\ SvcInit
    /\ LockInit

\* add(chunk_id, embedding, {})
Grow(chunk_id, embedding) ==
    /\ index' \in NSWIndex_add(index, chunk_id, embedding, <<>>)
    /\ last' = [op |-> "add", id |-> chunk_id, ret |-> TRUE, again |-> FALSE]
    /\ UNCHANGED <<svc_vars, lock_vars>>

NextGrow == \E chunk_id \in GrowIds, embedding \in Vecs : Grow(chunk_id, embedding)

SpecGrow == InitGrow /\ [][NextGrow]_vars

\* the distinct ids other than node of a ranked list, in the order of the list
RECURSIVE DistinctOthers(_, _, _)
DistinctOthers(ranked, node, acc) ==
    IF ranked = <<>> THEN acc
    ELSE DistinctOthers(Tail(ranked), node,
                        IF Head(ranked)[1] = node \/ Head(ranked)[1] \in SeqToSet(acc)
                        THEN acc ELSE Append(acc, Head(ranked)[1]))

\* C38: for every reachable NSW graph, query and k >= 1, the list returned by
\* NSW search contains no chunk id more than once, and never has more
\* entries than there are stored chunks.
C38_SearchReturnsEachIdOnce ==
    index.kind = "nsw" =>
        \A q \in Queries : \A k \in 1..(MaxIds + 1) :
            \A results \in NSWIndex_search(index, q, k, NoFilter) :
                /\ \A i, j \in 1..Len(results) : i # j => results[i][1] # results[j][1]
                /\ Len(results) <= Cardinality(VectorKeys(index))

\* the part of C38 that the code keeps: the list has at most k entries, all
\* of them stored chunks
SearchReturnsAtMostKStored ==
    index.kind = "nsw" =>
        \A q \in Queries : \A k \in 1..(MaxIds + 1) :
            \A results \in NSWIndex_search(index, q, k, NoFilter) :
                /\ Len(results) <= k
                /\ \A i \in 1..Len(results) : results[i][1] \in VectorKeys(index)

\* C34: NSW add(id, v, m) of a new id: when the index is empty it sets
\* graph[id] to the empty set and entry_point to id; otherwise it links id
\* bidirectionally to the M most similar distinct ids other than id found by
\* the beam search from entry_point, or to all of them when fewer than M
\* distinct ids were found, and to at least one node.
C34_AddLinksToMNearestFound ==
    index.kind = "nsw" =>
        \A id \in GrowIds \ VectorKeys(index) : \A v \in Vecs :
            LET ix1 == [index EXCEPT !.chunks = DictSet(@, id, v)]
            IN \A out \in NSWIndex_add(index, id, v, <<>>) :
                  IF index.entry_point = NoId
                  THEN out.graph[id] = {} /\ out.entry_point = id
                  ELSE /\ out.entry_point = index.entry_point
                       /\ out.graph[id] # {}
                       /\ \A n \in out.graph[id] : id \in out.graph[n]
                       /\ \E ranked \in beam_search(ix1, v, index.efConstruction,
                                                    <<index.entry_point>>) :
                             LET found == DistinctOthers(ranked, id, <<>>)
                             IN out.graph[id] = SeqToSet(Take(found, index.M))

\* the part of C34 that the code keeps: the new id is linked in both
\* directions to between one and M of the ids the beam search returned
AddLinksToSomeFound ==
    index.kind = "nsw" =>
        \A id \in GrowIds \ VectorKeys(index) : \A v \in Vecs :
            LET ix1 == [index EXCEPT !.chunks = DictSet(@, id, v)]
            IN \A out \in NSWIndex_add(index, id, v, <<>>) :
                  IF index.entry_point = NoId
                  THEN out.graph[id] = {} /\ out.entry_point = id
                  ELSE /\ out.entry_point = index.entry_point
                       /\ out.graph[id] # {}
                       /\ Cardinality(out.graph[id]) <= index.M
                       /\ \A n \in out.graph[id] : id \in out.graph[n]
                       /\ \E ranked \in beam_search(ix1, v, index.efConstruction,
                                                    <<index.entry_point>>) :
                             out.graph[id] \subseteq
                                 SeqToSet(DistinctOthers(ranked, id, <<>>))

----------------------------------------------------------------------------
(* SpecRace: threads in IndexService.create_index_for_library, which takes *)
(* no lock: the membership test and the binding are separate steps         *)

IdleCreate == [at |-> "idle", library_id |-> NoId, index_type |-> "", ok |-> FALSE,
               err |-> "none"]

InitRace ==
    /\ index = LinearIndex_init
    /\ last = NoOp
    /\ SvcInit
    /\ pc = [t \in Threads |-> IdleCreate]
    /\ rwlock = [readers |-> {}, writer |-> 0]
    /\ wop = NoWrite("init")
    /\ seen = <<>>

\* if library_id in self._active_indexes: raise AlreadyExistsError
CreateTest(t, library_id, index_type) ==
    /\ pc[t].at = "idle"
    /\ pc' = [pc EXCEPT ![t] =
                 IF library_id \in DOMAIN active_indexes
                 THEN [at |-> "returned", library_id |-> library_id,
                       index_type |-> index_type, ok |-> FALSE, err |-> "already_exists"]
                 ELSE [at |-> "tested", library_id |-> library_id,
                       index_type |-> index_type, ok |-> FALSE, err |-> "none"]]
    /\ UNCHANGED <<index, last, svc_vars, rwlock, wop, seen>>

\* index = create_index(index_type, params); self._active_indexes[library_id] = index
CreateBind(t) ==
    /\ pc[t].at = "tested"
    /\ LET made == create_index(pc[t].index_type, <<>>)
       IN /\ active_indexes' = IF made.ok THEN FnSet(active_indexes, pc[t].library_id, made.index)
                               ELSE active_indexes
          /\ pc' = [pc EXCEPT ![t].at = "returned", ![t].ok = made.ok,
                              ![t].err = IF made.ok THEN "none" ELSE "value"]
    /\ UNCHANGED <<index, last, libraries, documents, chunks, svc, rwlock, wop, seen>>

NextRace ==
    \/ \E t \in Threads, library_id \in LibIds, index_type \in IndexTypes :
          CreateTest(t, library_id, index_type)
    \/ \E t \in Threads : CreateBind(t)

SpecRace == InitRace /\ [][NextRace]_vars

\* two calls for the same library id, both with an index type the factory
\* knows, have returned
CreatedSameLibrary(t1, t2) ==
    /\ t1 # t2
    /\ pc[t1].at = "returned" /\ pc[t2].at = "returned"
    /\ pc[t1].library_id = pc[t2].library_id
    /\ create_index(pc[t1].index_type, <<>>).ok
    /\ create_index(pc[t2].index_type, <<>>).ok

\* C35: when two threads call registry create for the same library id
\* concurrently, under every interleaving exactly one call succeeds and the
\* other fails with already-exists, and the index instance bound by the
\* successful call is never overwritten.
C35_ConcurrentCreateBindsOnce ==
    /\ [](\A t1, t2 \in Threads :
             CreatedSameLibrary(t1, t2) =>
                 /\ pc[t1].ok # pc[t2].ok
                 /\ pc[t1].ok \/ pc[t1].err = "already_exists"
                 /\ pc[t2].ok \/ pc[t2].err = "already_exists")
    /\ [][\A library_id \in DOMAIN active_indexes :
             /\ library_id \in DOMAIN active_indexes'
             /\ active_indexes'[library_id] = active_indexes[library_id]]_vars

----------------------------------------------------------------------------
(* SpecHold: the locks the service operations take, call by call.  Every   *)
(* repository method and every index method is one `with self._lock` block; *)
(* an operation is the list of the blocks it enters, and may end after any  *)
(* of them (a NotFoundError, an early return).                              *)

MaxLoop == 1
LockNames == {"libraries", "documents", "chunks", "index"}

\* one locked method: with self._lock.gen_rlock() / gen_wlock(): body
Locked(lock, mode) == << <<"acquire", lock, mode>>, <<"release", lock, mode>> >>

\* the ways a list of blocks can end: after each block left
EndingsOf(steps) == {SubSeq(steps, 1, n) : n \in {m \in 0..Len(steps) :
                        m = Len(steps) \/ steps[m + 1][1] = "acquire"}}
\* a list of blocks, then one of several continuations
Then(firsts, nexts) == {a \o b : a \in firsts, b \in nexts}
\* a loop body run i times, i up to MaxLoop
RECURSIVE Repeated(_, _)
Repeated(bodies, i) ==
    IF i = 0 THEN {<<>>} ELSE {<<>>} \cup Then(bodies, Repeated(bodies, i - 1))

ChunkService_get_by_id_locks == Locked("chunks", "r")

\* a create that calls index.add inside the block of the chunk repository
ChunkService_create_locks_nested(new_document) ==
    Locked("libraries", "r")
    \o (IF new_document THEN Locked("documents", "w") \o Locked("libraries", "w")
        ELSE Locked("documents", "r"))
    \o << <<"acquire", "chunks", "w">> >> \o Locked("documents", "w")
    \o Locked("index", "w") \o << <<"release", "chunks", "w">> >>

ChunkService_create_locks(new_document) ==
    Locked("libraries", "r")
    \o (IF new_document THEN Locked("documents", "w") \o Locked("libraries", "w")
        ELSE Locked("documents", "r"))
    \o Locked("chunks", "w") \o Locked("documents", "w") \o Locked("index", "w")

ChunkService_update_locks ==
    ChunkService_get_by_id_locks \o Locked("chunks", "w") \o Locked("index", "w")

ChunkService_delete_locks ==
    ChunkService_get_by_id_locks \o Locked("index", "w") \o Locked("documents", "w")
    \o Locked("chunks", "w")

DocumentService_get_by_id_locks == Locked("documents", "r")

DocumentService_create_locks ==
    Locked("libraries", "r") \o Locked("documents", "w") \o Locked("libraries", "w")

DocumentService_update_locks == DocumentService_get_by_id_locks \o Locked("documents", "w")

\* delete: the document is read, its chunks listed, each chunk deleted (a
\* chunk delete that does not find its chunk returns early), then the
\* document is removed from the library and from the store
DocumentService_delete_paths ==
    {DocumentService_get_by_id_locks}
    \cup Then(Then({DocumentService_get_by_id_locks \o Locked("documents", "r")},
                   Repeated({ChunkService_get_by_id_locks, ChunkService_delete_locks},
                            MaxLoop)),
              {Locked("libraries", "w") \o Locked("documents", "w")})

LibraryService_create_locks == Locked("libraries", "w")
LibraryService_update_locks == Locked("libraries", "r") \o Locked("libraries", "w")
LibraryService_delete_paths ==
    {Locked("libraries", "r")}
    \cup Then(Then({Locked("libraries", "r") \o Locked("libraries", "r")},
                   Repeated(DocumentService_delete_paths, MaxLoop)),
              {Locked("libraries", "w")})
IndexService_build_locks == Locked("index", "w")
IndexService_search_locks == Locked("index", "r")

\* the runs of each operation: its blocks in order, ended after any of them
RunsOf(op) ==
    LET whole ==
          CASE op = "chunk_create" -> {ChunkService_create_locks(b) : b \in BOOLEAN}
            [] op = "chunk_update" -> {ChunkService_update_locks}
            [] op = "chunk_delete" -> {ChunkService_delete_locks}
            [] op = "document_create" -> {DocumentService_create_locks}
            [] op = "document_update" -> {DocumentService_update_locks}
            [] op = "document_delete" -> DocumentService_delete_paths
            [] op = "library_create" -> {LibraryService_create_locks}
            [] op = "library_update" -> {LibraryService_update_locks}
            [] op = "library_delete" -> LibraryService_delete_paths
            [] op = "build" -> {IndexService_build_locks}
            [] op = "search" -> {IndexService_search_locks}
    IN UNION {EndingsOf(steps) : steps \in whole} \ {<<>>}

HoldOps == {"chunk_create", "chunk_update", "chunk_delete", "document_create",
            "document_update", "document_delete", "library_create", "library_update",
            "library_delete", "build", "search"}

NoRun == [op |-> "none", todo |-> <<>>, held |-> {}]

InitHold ==
    /\ index = LinearIndex_init
    /\ last = NoOp
    /\ SvcInit
    /\ pc = [t \in Threads |-> NoRun]
    /\ rwlock = [l \in LockNames |-> [readers |-> {}, writer |-> 0]]
    /\ wop = NoWrite("init")
    /\ seen = <<>>

\* a thread enters a service operation
HoldBegin(t, op, steps) ==
    /\ pc[t].todo = <<>> /\ pc[t].held = {}
    /\ pc' = [pc EXCEPT ![t] = [op |-> op, todo |-> steps, held |-> {}]]
    /\ UNCHANGED <<index, last, svc_vars, rwlock, wop, seen>>

\* the thread enters the next block when the lock is granted
HoldAcquire(t) ==
    /\ pc[t].todo # <<>> /\ Head(pc[t].todo)[1] = "acquire"
    /\ LET lock == Head(pc[t].todo)[2]
           mode == Head(pc[t].todo)[3]
       IN /\ IF mode = "r" THEN CanRead(rwlock[lock]) ELSE CanWrite(rwlock[lock])
          /\ rwlock' = IF mode = "r"
                       THEN [rwlock EXCEPT ![lock].readers = @ \cup {t}]
                       ELSE [rwlock EXCEPT ![lock].writer = t]
          /\ pc' = [pc EXCEPT ![t].todo = Tail(@), ![t].held = @ \cup {lock}]
    /\ UNCHANGED <<index, last, svc_vars, wop, seen>>

\* the thread leaves the block, by return or by exception
HoldRelease(t) ==
    /\ pc[t].todo # <<>> /\ Head(pc[t].todo)[1] = "release"
    /\ LET lock == Head(pc[t].todo)[2]
           mode == Head(pc[t].todo)[3]
       IN /\ rwlock' = IF mode = "r"
                       THEN [rwlock EXCEPT ![lock].readers = @ \ {t}]
                       ELSE [rwlock EXCEPT ![lock].writer = 0]
          /\ pc' = [pc EXCEPT ![t].todo = Tail(@), ![t].held = @ \ {lock}]
    /\ UNCHANGED <<index, last, svc_vars, wop, seen>>

NextHold ==
    \/ \E t \in Threads, op \in HoldOps : \E steps \in RunsOf(op) : HoldBegin(t, op, steps)
    \/ \E t \in Threads : HoldAcquire(t)
    \/ \E t \in Threads : HoldRelease(t)

SpecHoldSteps == InitHold /\ [][NextHold]_vars
\* a thread inside a block runs the block to its end
SpecHold == SpecHoldSteps /\ \A t \in Threads : WF_vars(HoldRelease(t))

\* the thread can take its next step
CanStep(t) ==
    /\ pc[t].todo # <<>>
    /\ \/ Head(pc[t].todo)[1] = "release"
       \/ LET l == rwlock[Head(pc[t].todo)[2]]
          IN IF Head(pc[t].todo)[3] = "r" THEN CanRead(l) ELSE CanWrite(l)

\* C36: no thread ever requests a lock (of an index, of the registry or of a
\* repository) while it holds another one, so under every interleaving of
\* chunk, document and library operations, builds and searches no deadlock
\* state is reachable and every operation that has acquired its lock
\* releases it.
C36_NoLockHeldWhileRequesting ==
    /\ [](\A t \in Threads :
             /\ Cardinality(pc[t].held) <= 1
             /\ (pc[t].todo # <<>> /\ Head(pc[t].todo)[1] = "acquire") => pc[t].held = {})
    /\ []((\E t \in Threads : pc[t].todo # <<>>) => \E t \in Threads : CanStep(t))
    /\ \A t \in Threads : (pc[t].held # {}) ~> (pc[t].held = {})
\* a chunk create is in its index.add block while a search waits for the
\* lock of the same index
C36_Witness ==
    \E t1, t2 \in Threads :
        /\ pc[t1].op = "chunk_create" /\ pc[t1].held = {"index"}
        /\ rwlock["index"].writer = t1
        /\ pc[t2].op = "search" /\ pc[t2].todo # <<>>
        /\ Head(pc[t2].todo) = <<"acquire", "index", "r">>
        /\ ~CanStep(t2)

----------------------------------------------------------------------------
(* SpecChunk: threads in ChunkService.create, update and delete on one     *)
(* library, each repository call and each index call a step of its own     *)

\* create, to the call of chunk_repository.save: the library and the
\* document named are looked up, the chunk gets a fresh id
CreateBegin(t, library_id, embedding, metadata, document_id) ==
    /\ pc[t].at = "idle"
    /\ pc' = [pc EXCEPT ![t] =
                 IF library_id \in DOMAIN libraries
                    /\ DocumentService_get_by_id(Stores, document_id, library_id)
                 THEN [at |-> "made", id |-> svc.next,
                       chunk |-> [library_id |-> library_id, document_id |-> document_id,
                                  embedding |-> embedding, metadata |-> metadata]]
                 ELSE [at |-> "returned", id |-> NoId, chunk |-> <<>>]]
    /\ svc' = [svc EXCEPT !.next = @ + 1]
    /\ UNCHANGED <<index, last, libraries, documents, chunks, active_indexes,
                   rwlock, wop, seen>>

\* self._chunk_repository.save(chunk)
CreateSave(t) ==
    /\ pc[t].at = "made"
    /\ chunks' = FnSet(chunks, pc[t].id, pc[t].chunk)
    /\ pc' = [pc EXCEPT ![t].at = "saved"]
    /\ UNCHANGED <<index, last, libraries, documents, active_indexes, svc,
                   rwlock, wop, seen>>

\* self._document_repository.add_chunk_to_document(document.id, chunk.id),
\* which raises NotFoundError when the document is gone
CreateAttach(t) ==
    /\ pc[t].at = "saved"
    /\ LET document == pc[t].chunk.document_id
       IN IF document \in DOMAIN documents
          THEN /\ documents' = [documents EXCEPT ![document].chunks = @ \cup {pc[t].id}]
               /\ pc' = [pc EXCEPT ![t].at = "attached"]
          ELSE /\ documents' = documents
               /\ pc' = [pc EXCEPT ![t].at = "returned"]
    /\ UNCHANGED <<index, last, libraries, chunks, active_indexes, svc, rwlock, wop, seen>>

\* index = get_index(library_id); index.add(...); the call returns
CreateIndex(t) ==
    /\ pc[t].at = "attached"
    /\ LET chunk == pc[t].chunk
       IN active_indexes' =
              IF chunk.library_id \in DOMAIN active_indexes
              THEN [active_indexes EXCEPT ![chunk.library_id] =
                        Registered_add(@, pc[t].id, chunk.embedding, IndexMetadataOf(chunk))]
              ELSE active_indexes
    /\ pc' = [pc EXCEPT ![t].at = "returned"]
    /\ UNCHANGED <<index, last, libraries, documents, chunks, svc, rwlock, wop, seen>>

\* delete, to the call of the index: get_by_id; a chunk that is not found
\* ends the call
DeleteLoad(t, chunk_id, library_id) ==
    /\ pc[t].at = "idle"
    /\ pc' = [pc EXCEPT ![t] =
                 IF ChunkService_get_by_id(Stores, chunk_id, library_id, None)
                 THEN [at |-> "found", id |-> chunk_id, chunk |-> chunks[chunk_id]]
                 ELSE [at |-> "returned", id |-> chunk_id, chunk |-> <<>>]]
    /\ UNCHANGED <<index, last, svc_vars, rwlock, wop, seen>>

\* index = get_index(library_id); if index: index.delete(chunk_id)
DeleteIndex(t) ==
    /\ pc[t].at = "found"
    /\ LET library_id == pc[t].chunk.library_id
       IN active_indexes' =
              IF library_id \in DOMAIN active_indexes
              THEN [active_indexes EXCEPT ![library_id] = Registered_delete(@, pc[t].id)]
              ELSE active_indexes
    /\ pc' = [pc EXCEPT ![t].at = "unindexed"]
    /\ UNCHANGED <<index, last, libraries, documents, chunks, svc, rwlock, wop, seen>>

\* self._document_repository.remove_chunk_from_document(...), which raises
\* NotFoundError when the document is gone
DeleteDetach(t) ==
    /\ pc[t].at = "unindexed"
    /\ LET document == pc[t].chunk.document_id
       IN IF document \in DOMAIN documents
          THEN /\ documents' = [documents EXCEPT ![document].chunks = @ \ {pc[t].id}]
               /\ pc' = [pc EXCEPT ![t].at = "detached"]
          ELSE /\ documents' = documents
               /\ pc' = [pc EXCEPT ![t].at = "returned"]
    /\ UNCHANGED <<index, last, libraries, chunks, active_indexes, svc, rwlock, wop, seen>>

\* self._chunk_repository.delete(chunk_id); the call returns
DeleteRecord(t) ==
    /\ pc[t].at = "detached"
    /\ chunks' = FnDel(chunks, pc[t].id)
    /\ pc' = [pc EXCEPT ![t].at = "returned"]
    /\ UNCHANGED <<index, last, libraries, documents, active_indexes, svc,
                   rwlock, wop, seen>>

NextChunk ==
    \/ \E t \in Threads, library_id \in DOMAIN libraries, embedding \in Vecs,
          metadata \in Metas, document_id \in DOMAIN documents :
          CreateBegin(t, library_id, embedding, metadata, document_id)
    \/ \E t \in Threads : CreateSave(t)
    \/ \E t \in Threads : CreateAttach(t)
    \/ \E t \in Threads : CreateIndex(t)
    \/ \E t \in Threads, chunk_id \in DOMAIN chunks, library_id \in DOMAIN libraries :
          DeleteLoad(t, chunk_id, library_id)
    \/ \E t \in Threads : DeleteIndex(t)
    \/ \E t \in Threads : DeleteDetach(t)
    \/ \E t \in Threads : DeleteRecord(t)
    \/ \E t \in Threads, chunk_id \in DOMAIN chunks, library_id \in DOMAIN libraries,
          text \in {None} \cup {Some(v) : v \in Vecs},
          metadata \in {None} \cup {Some(m) : m \in Metas} :
          UpdateLoad(t, chunk_id, library_id, text, metadata)
    \/ \E t \in Threads : UpdateStore(t)
    \/ \E t \in Threads : UpdateIndex(t)
    \/ \E library_id \in DOMAIN libraries, query_embedding \in Queries, k \in 1..MaxK :
          SearchAlongside(library_id, query_embedding, k)

SpecChunk == InitUpd /\ [][NextChunk]_vars

\* the chunk ids the indexes of the registry hold
IndexedIds == UNION {StoredKeys(active_indexes[l]) : l \in DOMAIN active_indexes}

\* C39: under every interleaving of concurrent chunk create, update and
\* delete calls and searches on one library, at every moment each chunk id
\* held by the library's index has a record in the chunk store: create
\* persists the record before inserting into the index, delete removes the
\* index entry before removing the record, and an update racing with a
\* delete never re-inserts the id into the index or the store.
C39_IndexedIdsHaveRecords ==
    /\ [](IndexedIds \subseteq DOMAIN chunks)
    /\ [][\A t \in Threads :
             (pc[t].at \in {"loaded", "stored"} /\ pc'[t] # pc[t])
                 => /\ DOMAIN chunks' \subseteq DOMAIN chunks
                    /\ IndexedIds' \subseteq IndexedIds]_vars

\* the part of C39 that the code keeps: the steps of update and of delete
\* add no id to the store or to the index, and create saves the record
\* before it adds the id to the index
UpdateAndDeleteInsertNothing ==
    [][\A t \in Threads :
          /\ (pc[t].at \in {"loaded", "stored", "found", "unindexed", "detached"}
              /\ pc'[t] # pc[t])
                 => /\ DOMAIN chunks' \subseteq DOMAIN chunks
                    /\ IndexedIds' \subseteq IndexedIds
          /\ (pc[t].at = "made" /\ pc'[t] # pc[t])
                 => pc[t].id \in DOMAIN chunks' /\ IndexedIds' = IndexedIds]_vars

----------------------------------------------------------------------------
(* SpecMember: threads in LibraryService.update, DocumentService.create,   *)
(* DocumentService.update and ChunkService.create on one library and one   *)
(* document, each repository call a step of its own; the records carry the *)
(* name and the metadata the updates write                                 *)

LibraryNames == {"a", "b"}

\* library 1 with its index and document 2, made by the services
InitMember ==
    /\ \E metadata \in Metas :
          LET empty == [libraries |-> <<>>, documents |-> <<>>, chunks |-> <<>>,
                        active_indexes |-> <<>>]
              lib == LibraryService_create(empty, 1, "linear", <<>>).st
              st == DocumentService_create(lib, 1, 2).st
          IN /\ libraries = [l \in DOMAIN st.libraries |->
                                [name |-> "a", metadata |-> metadata] @@ st.libraries[l]]
             /\ documents = [d \in DOMAIN st.documents |->
                                [metadata |-> metadata] @@ st.documents[d]]
             /\ chunks = st.chunks
             /\ active_indexes = st.active_indexes
    /\ svc = [op |-> "document_create", lib |-> 1, doc |-> 2, chunk |-> NoId,
              ok |-> TRUE, found |-> FALSE, next |-> 3]
    /\ index = LinearIndex_init
    /\ last = NoOp
    /\ pc = [t \in Threads |-> IdleThread]
    /\ rwlock = [readers |-> {}, writer |-> 0]
    /\ wop = NoWrite("init")
    /\ seen = <<>>

\* LibraryService.update, to the call of repository.update: get_by_id
\* returns a deep copy of the stored library, documents included, which
\* takes the name and the metadata that are given
LibraryUpdateLoad(t, id, name, metadata) ==
    /\ pc[t].at = "idle"
    /\ pc' = [pc EXCEPT ![t] =
                 IF id \in DOMAIN libraries
                 THEN LET library == libraries[id]
                          named == IF name = None THEN library
                                   ELSE [library EXCEPT !.name = name.v]
                      IN [at |-> "library_loaded", id |-> id,
                          library |-> IF metadata = None THEN named
                                      ELSE [named EXCEPT !.metadata = metadata.v]]
                 ELSE [at |-> "returned", id |-> id]]
    /\ UNCHANGED <<index, last, svc_vars, rwlock, wop, seen>>

\* InMemoryLibraryRepository.update: the stored library is replaced by the
\* one given; the call returns
LibraryUpdateStore(t) ==
    /\ pc[t].at = "library_loaded"
    /\ libraries' = IF pc[t].id \in DOMAIN libraries
                    THEN [libraries EXCEPT ![pc[t].id] = pc[t].library]
                    ELSE libraries
    /\ pc' = [pc EXCEPT ![t].at = "returned"]
    /\ UNCHANGED <<index, last, documents, chunks, active_indexes, svc,
                   rwlock, wop, seen>>

\* DocumentService.create, to the call of document_repository.save: the
\* library is looked up, the document gets a fresh id
DocumentCreateBegin(t, library_id, metadata) ==
    /\ pc[t].at = "idle"
    /\ pc' = [pc EXCEPT ![t] =
                 IF library_id \in DOMAIN libraries
                 THEN [at |-> "document_made", id |-> svc.next,
                       document |-> [library_id |-> library_id, chunks |-> {},
                                     metadata |-> metadata]]
                 ELSE [at |-> "returned", id |-> NoId]]
    /\ svc' = [svc EXCEPT !.next = @ + 1]
    /\ UNCHANGED <<index, last, libraries, documents, chunks, active_indexes,
                   rwlock, wop, seen>>

\* self._document_repository.save(document)
DocumentCreateSave(t) ==
    /\ pc[t].at = "document_made"
    /\ documents' = FnSet(documents, pc[t].id, pc[t].document)
    /\ pc' = [pc EXCEPT ![t].at = "document_saved"]
    /\ UNCHANGED <<index, last, libraries, chunks, active_indexes, svc,
                   rwlock, wop, seen>>

\* self._library_repository.add_document_to_library(library_id, document.id);
\* the call returns
DocumentCreateAttach(t) ==
    /\ pc[t].at = "document_saved"
    /\ LET library_id == pc[t].document.library_id
       IN libraries' = IF library_id \in DOMAIN libraries
                       THEN [libraries EXCEPT ![library_id].documents = @ \cup {pc[t].id}]
                       ELSE libraries
    /\ pc' = [pc EXCEPT ![t].at = "returned"]
    /\ UNCHANGED <<index, last, documents, chunks, active_indexes, svc,
                   rwlock, wop, seen>>

\* DocumentService.update, to the call of repository.update: get_by_id
\* returns a deep copy of the stored document, chunks included, which takes
\* the metadata given
DocumentUpdateLoad(t, document_id, library_id, metadata) ==
    /\ pc[t].at = "idle"
    /\ pc' = [pc EXCEPT ![t] =
                 IF DocumentService_get_by_id(Stores, document_id, library_id)
                 THEN [at |-> "document_loaded", id |-> document_id,
                       document |-> [documents[document_id] EXCEPT !.metadata = metadata]]
                 ELSE [at |-> "returned", id |-> document_id]]
    /\ UNCHANGED <<index, last, svc_vars, rwlock, wop, seen>>

\* InMemoryDocumentRepository.update: the stored document is replaced by
\* the one given; the call returns
DocumentUpdateStore(t) ==
    /\ pc[t].at = "document_loaded"
    /\ documents' = IF pc[t].id \in DOMAIN documents
                    THEN [documents EXCEPT ![pc[t].id] = pc[t].document]
                    ELSE documents
    /\ pc' = [pc EXCEPT ![t].at = "returned"]
    /\ UNCHANGED <<index, last, libraries, chunks, active_indexes, svc,
                   rwlock, wop, seen>>

NextMember ==
    \/ \E t \in Threads, id \in DOMAIN libraries,
          name \in {None} \cup {Some(n) : n \in LibraryNames},
          metadata \in {None} \cup {Some(m) : m \in Metas} :
          LibraryUpdateLoad(t, id, name, metadata)
    \/ \E t \in Threads : LibraryUpdateStore(t)
    \/ \E t \in Threads, library_id \in DOMAIN libraries, metadata \in Metas :
          DocumentCreateBegin(t, library_id, metadata)
    \/ \E t \in Threads : DocumentCreateSave(t)
    \/ \E t \in Threads : DocumentCreateAttach(t)
    \/ \E t \in Threads, document_id \in DOMAIN documents,
          library_id \in DOMAIN libraries, metadata \in Metas :
          DocumentUpdateLoad(t, document_id, library_id, metadata)
    \/ \E t \in Threads : DocumentUpdateStore(t)
    \/ \E t \in Threads, library_id \in DOMAIN libraries, embedding \in Vecs,
          metadata \in Metas, document_id \in DOMAIN documents :
          CreateBegin(t, library_id, embedding, metadata, document_id)
    \/ \E t \in Threads : CreateSave(t)
    \/ \E t \in Threads : CreateAttach(t)
    \/ \E t \in Threads : CreateIndex(t)

SpecMember == InitMember /\ [][NextMember]_vars

\* no thread is inside a call
AllReturned == \A t \in Threads : pc[t].at \in {"idle", "returned"}

\* every stored document is in the document set of its library
DocumentsRecorded ==
    \A d \in DOMAIN documents :
        documents[d].library_id \in DOMAIN libraries
            => d \in libraries[documents[d].library_id].documents

\* every stored chunk is in the chunk set of its document
ChunksRecorded ==
    \A c \in DOMAIN chunks :
        chunks[c].document_id \in DOMAIN documents
            => c \in documents[chunks[c].document_id].chunks

\* C40: a library update that runs concurrently with a document create in
\* the same library never removes the new document from the library's
\* document set, and a document metadata update that runs concurrently with
\* a chunk create in that document never removes the new chunk from the
\* document's chunk set: once the calls have returned, the memberships the
\* creates added are still recorded.
C40_UpdateKeepsNewMembers ==
    AllReturned => (DocumentsRecorded /\ ChunksRecorded)

\* the part of C40 that the code keeps: the steps of a create never take a
\* member out of a set, and only the store step of an update does
OnlyUpdateStoreDropsMembers ==
    [][\A t \in Threads :
          (pc'[t] # pc[t] /\ pc[t].at \notin {"library_loaded", "document_loaded"})
              => /\ \A l \in DOMAIN libraries :
                       libraries[l].documents \subseteq libraries'[l].documents
                 /\ \A d \in DOMAIN documents :
                       documents[d].chunks \subseteq documents'[d].chunks]_vars

\* the halves of C40, each refuted on its own
LibraryUpdateKeepsNewDocument == AllReturned => DocumentsRecorded
DocumentUpdateKeepsNewChunk == AllReturned => ChunksRecorded

====
